---- MODULE Spec2Model ----
(***************************************************************************)
(* Vue map-engine demo: the Root Coordinator's debounced reverse           *)
(* geocoding, the two geocoding services, formatAddress, the multi-engine  *)
(* Base Map component and the Google map components, as state machines.    *)
(*                                                                         *)
(* Time is in milliseconds.  One action is one macrotask of the browser's  *)
(* event loop together with the microtasks (Vue's watcher flush, resolved  *)
(* promises) it leaves behind, because no other macrotask can run between  *)
(* them.  An await on a timer, a network response or a library load ends   *)
(* the action; the continuation is a later action.                         *)
(***************************************************************************)
EXTENDS Integers, Sequences, FiniteSets, TLC

VARIABLES
  \* ---- Root Coordinator (App.vue) ----
  now,                 \* the clock, ms
  position,            \* ref<LatLngValue>
  selectedService,     \* ref<"openstreetmap" | "googlemaps">
  address,             \* ref<string>
  isLoadingAddress,    \* ref<boolean>
  geocodingTimeoutId,  \* ref<number | null>: id of the last debounce timer
  timers,              \* debounce timers set and neither fired nor cleared
  reassignQ,           \* service watcher continuations awaiting setTimeout(0)
  inflight,            \* lookups awaiting the provider's response
  nextId,              \* next timer / lookup id
  changeLog,           \* history: times of the assignments to position.value
  lookups,             \* history: the calls of reverseGeocodeFn
  addressFrom,         \* history: id of the run that last wrote address
  customMarkers,       \* ref<AdvancedMarkerElement[]>
  markerRuns,          \* runs of the marker watcher awaiting createMarker
  \* ---- geocoding services ----
  apiKey,              \* import.meta.env.VITE_GOOGLE_MAPS_API_KEY
  googleMapsInitialized,
  geoCall,             \* a direct call of reverseGeocode awaiting its provider
  geoResult,           \* how that call settled
  \* ---- formatAddress ----
  fmtIn,               \* the address handed to formatAddress
  fmtOut,              \* what it returned
  \* ---- map components ----
  comp,                \* which component this behaviour is about
  phase,               \* "mounted" | "unmounted" (setup is followed by mount)
  props,               \* the component's props
  inst,                \* the instance: its map references, the SDK maps
                       \* alive on its container, and the call counts
  pending,             \* async initialisations awaiting the library load
  last                 \* history: the operation that ran last

coordVars == <<now, position, selectedService, address, isLoadingAddress,
               geocodingTimeoutId, timers, reassignQ, inflight, nextId,
               changeLog, lookups, addressFrom, customMarkers, markerRuns>>
geoVars == <<apiKey, googleMapsInitialized, geoCall, geoResult>>
fmtVars == <<fmtIn, fmtOut>>
mapVars == <<comp, phase, props, inst, pending, last>>

-----------------------------------------------------------------------------
(* Values *)

\* JavaScript null in a number | null field
Null == -1
\* JavaScript undefined in an optional string field
Undef == "<undefined>"
\* an optional object: <<>> is undefined, <<x>> is the object x
NoAddr == <<>>

Truthy(s) == s # Undef /\ s # ""

AddrFields == <<"house_number", "road", "suburb", "city", "town", "village",
                "county", "state", "postcode", "country", "country_code">>

EmptyAddr == [f \in {AddrFields[i] : i \in 1..Len(AddrFields)} |-> Undef]

-----------------------------------------------------------------------------
(* openStreetMapService.ts: formatAddress *)

RECURSIVE Join(_, _)
Join(parts, sep) ==
  IF parts = <<>> THEN ""
  ELSE IF Len(parts) = 1 THEN parts[1]
  ELSE parts[1] \o sep \o Join(Tail(parts), sep)

\* if (x) parts.push(x)
PushIf(parts, s) == IF Truthy(s) THEN Append(parts, s) ELSE parts

HouseRoadSwapped(a) ==
  IF Truthy(a.house_number) /\ Truthy(a.road)
    THEN <<a.road \o " " \o a.house_number>>
    ELSE IF Truthy(a.road) THEN <<a.road>> ELSE <<>>

HouseRoad(a) ==
  IF Truthy(a.house_number) /\ Truthy(a.road)
    THEN <<a.house_number \o " " \o a.road>>
    ELSE IF Truthy(a.road) THEN <<a.road>> ELSE <<>>

formatAddress(a) ==
  LET p0 == HouseRoad(a)
      p1 == PushIf(p0, a.suburb)
      p2 == PushIf(p1, a.city)
      p3 == PushIf(p2, a.town)
      p4 == PushIf(p3, a.village)
      p5 == PushIf(p4, a.county)
      p6 == PushIf(p5, a.state)
      p7 == PushIf(p6, a.postcode)
      p8 == PushIf(p7, a.country)
  IN Join(p8, ", ")

-----------------------------------------------------------------------------
(* googleMapsService.ts: extractAddressComponents *)

ApplyComponentRouteFirst(addr, c) ==
  IF "route" \in c.types
    THEN [addr EXCEPT !.road = c.long_name]
  ELSE IF "street_number" \in c.types
    THEN [addr EXCEPT !.house_number = c.long_name]
  ELSE IF "locality" \in c.types \/ "administrative_area_level_3" \in c.types
    THEN [addr EXCEPT !.city = c.long_name]
  ELSE IF "administrative_area_level_2" \in c.types
    THEN [addr EXCEPT !.county = c.long_name]
  ELSE IF "administrative_area_level_1" \in c.types
    THEN [addr EXCEPT !.state = c.long_name]
  ELSE IF "country" \in c.types
    THEN [addr EXCEPT !.country = c.long_name, !.country_code = c.short_name]
  ELSE IF "postal_code" \in c.types
    THEN [addr EXCEPT !.postcode = c.long_name]
  ELSE IF "sublocality" \in c.types \/ "neighborhood" \in c.types
    THEN [addr EXCEPT !.suburb = c.long_name]
  ELSE addr

\* one iteration of the for loop: the first matching branch sets its fields
ApplyComponent(addr, c) ==
  IF "street_number" \in c.types
    THEN [addr EXCEPT !.house_number = c.long_name]
  ELSE IF "route" \in c.types
    THEN [addr EXCEPT !.road = c.long_name]
  ELSE IF "locality" \in c.types \/ "administrative_area_level_3" \in c.types
    THEN [addr EXCEPT !.city = c.long_name]
  ELSE IF "administrative_area_level_2" \in c.types
    THEN [addr EXCEPT !.county = c.long_name]
  ELSE IF "administrative_area_level_1" \in c.types
    THEN [addr EXCEPT !.state = c.long_name]
  ELSE IF "country" \in c.types
    THEN [addr EXCEPT !.country = c.long_name, !.country_code = c.short_name]
  ELSE IF "postal_code" \in c.types
    THEN [addr EXCEPT !.postcode = c.long_name]
  ELSE IF "sublocality" \in c.types \/ "neighborhood" \in c.types
    THEN [addr EXCEPT !.suburb = c.long_name]
  ELSE addr

RECURSIVE ExtractFold(_, _)
ExtractFold(components, addr) ==
  IF components = <<>> THEN addr
  ELSE ExtractFold(Tail(components), ApplyComponent(addr, Head(components)))

\* Object.keys(address).length > 0 ? address : undefined
extractAddressComponents(components) ==
  LET a == ExtractFold(components, EmptyAddr)
  IN IF a # EmptyAddr THEN <<a>> ELSE NoAddr

-----------------------------------------------------------------------------
(* The two reverseGeocode functions.  A call settles as a record:          *)
(* settle says whether the promise resolved or rejected, isNull whether it *)
(* resolved to null.  A try block yields [threw, value].                   *)

NullResult == [settle |-> "resolved", isNull |-> TRUE,
               displayName |-> Undef, address |-> NoAddr]
Rejected   == [settle |-> "rejected", isNull |-> TRUE,
               displayName |-> Undef, address |-> NoAddr]
Result(d, a) == [settle |-> "resolved", isNull |-> FALSE,
                 displayName |-> d, address |-> a]

Threw      == [threw |-> TRUE, value |-> NullResult]
Returned(v) == [threw |-> FALSE, value |-> v]

\* What Nominatim and the network do with one request:
\*   fetch: the fetch promise; ok: response.ok; json: the response.json() promise;
\*   dataNull, display_name, address: the parsed body.
OsmTry(o) ==
  IF o.fetch = "reject" THEN Threw
  ELSE IF ~o.ok THEN Threw                      \* throw new Error("HTTP error!")
  ELSE IF o.json = "reject" THEN Threw
  ELSE IF o.dataNull \/ ~Truthy(o.display_name) THEN Returned(NullResult)
  ELSE Returned(Result(o.display_name, o.address))

osmNoCatch(o) ==
  LET t == OsmTry(o) IN IF t.threw THEN Rejected ELSE t.value

\* openStreetMapService.ts reverseGeocode: catch (error) { return null }
osmReverseGeocode(o) ==
  LET t == OsmTry(o) IN IF t.threw THEN NullResult ELSE t.value

Placeholder == "your_google_maps_api_key_here"

\* !apiKey || apiKey === "your_google_maps_api_key_here"
KeyInvalid(k) == k = Undef \/ k = "" \/ k = Placeholder

\* initGoogleMaps(): throws when not yet initialised and the key is invalid
initGoogleMapsThrows(init, k) == ~init /\ KeyInvalid(k)
\* the flag after a call that did not throw
initGoogleMapsDone(init, k) == init \/ ~KeyInvalid(k)

\* geocoder.geocode's callback: (results, status)
GeocodeCallback(o) ==
  IF o.status = "OK" /\ ~o.resultsNull /\ Len(o.results) > 0
    THEN Result(o.results[1].formatted_address,
                extractAddressComponents(o.results[1].address_components))
    ELSE NullResult

\* What the Google library does with one request once initGoogleMaps passed:
\*   load: the importLibrary("geocoding") promise; status, resultsNull, results:
\*   the arguments of the geocode callback.
GoogleTry(cfgThrows, o) ==
  IF cfgThrows THEN Threw
  ELSE IF o.load = "reject" THEN Threw
  ELSE Returned(GeocodeCallback(o))

\* googleMapsService.ts reverseGeocode: catch (error) { return null }
gmapsReverseGeocode(cfgThrows, o) ==
  LET t == GoogleTry(cfgThrows, o) IN IF t.threw THEN NullResult ELSE t.value

-----------------------------------------------------------------------------
(* What the providers can answer *)

SampleAddr == [EmptyAddr EXCEPT !.road = "Main St", !.city = "Springfield"]

OsmOutcomeBase ==
  [fetch |-> "resolve", ok |-> TRUE, json |-> "resolve", dataNull |-> FALSE,
   display_name |-> Undef, address |-> NoAddr]

OsmOutcomes ==
  { [OsmOutcomeBase EXCEPT !.fetch = "reject"],
    [OsmOutcomeBase EXCEPT !.ok = FALSE],
    [OsmOutcomeBase EXCEPT !.json = "reject"],
    [OsmOutcomeBase EXCEPT !.dataNull = TRUE] }
  \cup { [OsmOutcomeBase EXCEPT !.display_name = d, !.address = a] :
           d \in {Undef, "", "Main St, Springfield"},
           a \in {NoAddr, <<SampleAddr>>} }

CRoute   == [long_name |-> "Main St", short_name |-> "Main St", types |-> {"route"}]
CCountry == [long_name |-> "USA", short_name |-> "US",
             types |-> {"country", "political"}]
CPlus    == [long_name |-> "7GXH+2M", short_name |-> "7GXH+2M",
             types |-> {"plus_code"}]

GoogleOutcomeBase ==
  [load |-> "resolve", status |-> "OK", resultsNull |-> FALSE, results |-> <<>>]

GoogleOutcomes ==
  { [GoogleOutcomeBase EXCEPT !.load = "reject"],
    [GoogleOutcomeBase EXCEPT !.status = "ZERO_RESULTS"],
    [GoogleOutcomeBase EXCEPT !.status = "ERROR", !.resultsNull = TRUE],
    [GoogleOutcomeBase EXCEPT !.resultsNull = TRUE],
    GoogleOutcomeBase }
  \cup { [GoogleOutcomeBase EXCEPT
            !.results = << [formatted_address |-> f, address_components |-> cs] >>] :
           f \in {"", "Main St, USA"},
           cs \in {<<>>, <<CPlus>>, <<CRoute, CCountry>>} }

\* address components of every type the rules name, of none, and of several
Component(l, sh, ts) == [long_name |-> l, short_name |-> sh, types |-> ts]
ComponentSamples ==
  { Component("10", "10", {"street_number"}),
    Component("Main St", "Main St", {"route"}),
    Component("Side St", "Side St", {"route"}),
    Component("Springfield", "Spr", {"locality", "political"}),
    Component("Shelbyville", "Shv", {"administrative_area_level_3"}),
    Component("Kent", "Kent", {"administrative_area_level_2"}),
    Component("Ohio", "OH", {"administrative_area_level_1"}),
    Component("USA", "US", {"country", "political"}),
    Component("12345", "12345", {"postal_code"}),
    Component("Old Town", "Old Town", {"sublocality"}),
    Component("Riverside", "Riverside", {"neighborhood"}),
    Component("7GXH+2M", "7GXH+2M", {"plus_code"}),
    Component("10 Main", "10 Main", {"street_number", "route"}),
    Component("Monaco", "MC", {"locality", "country"}),
    Component("Soho", "Soho", {"postal_code", "neighborhood"}) }

\* the component lists extractAddressComponents is tried on
MaxComponents == 2
ComponentLists ==
  UNION {[1..n -> ComponentSamples] : n \in 0..MaxComponents}

\* answers with one result whose components are any of these lists
ExtractOutcomes ==
  { [GoogleOutcomeBase EXCEPT
       !.results = << [formatted_address |-> "Main St, USA",
                       address_components |-> cs] >>] :
      cs \in ComponentLists }

ApiKeys == {Undef, Placeholder, "AIza-demo-key"}

-----------------------------------------------------------------------------
(* Root Coordinator: App.vue *)

Debounce == 1000

TickMs == 200
MaxTime == 2000
MaxChanges == 3

Services == {"openstreetmap", "googlemaps"}
UnsetPosition == [lat |-> Null, lng |-> Null]
PosValues == {[lat |-> 1, lng |-> 1], [lat |-> 2, lng |-> 1], [lat |-> 1, lng |-> Null]}

IsSetLatOnly(p) == p.lat # Null

\* lat != null && lng != null
IsSet(p) == p.lat # Null /\ p.lng # Null

AddressForRawName(result) ==
  IF result.settle = "rejected" THEN "Error retrieving address"
  ELSE result.displayName

\* the lines after the await of performReverseGeocoding's try block
AddressFor(result) ==
  IF result.settle = "rejected" THEN "Error retrieving address"
  ELSE IF ~result.isNull /\ Truthy(result.displayName) THEN result.displayName
  ELSE IF ~result.isNull /\ result.address # NoAddr
    THEN formatAddress(result.address[1])
  ELSE "Unable to determine address"

TimersKeepOld(ts, lastId, t) == ts \cup {t}

\* watch(position): clearTimeout(geocodingTimeoutId) when set, then setTimeout
TimersAfterChange(ts, lastId, t) ==
  {x \in ts : lastId = Null \/ x.id # lastId} \cup {t}

\* createMarker: an advanced marker at options.position
createMarker(pos, kind) == [lat |-> pos.lat, lng |-> pos.lng, kind |-> kind]

\* the two markers a run of the marker watcher makes for newPosition
MainMarker(np) == createMarker([lat |-> np.lat, lng |-> np.lng], "pin")
OffsetMarker(np) == createMarker([lat |-> np.lat + 1, lng |-> np.lng + 1], "img")

\* watch(position) of the markers up to its first await: the list is
\* emptied; for a set position a run starts that awaits createMarker
watchPositionMarkers(newPosition) ==
  /\ customMarkers' = <<>>
  /\ markerRuns' = IF IsSet(newPosition) THEN Append(markerRuns, newPosition)
                   ELSE markerRuns

\* the run markerRuns[i] has both its markers: customMarkers.value =
\* [mainMarker, offsetMarker]
MarkerRunEnds(i) ==
  /\ i \in 1..Len(markerRuns)
  /\ customMarkers' = <<MainMarker(markerRuns[i]), OffsetMarker(markerRuns[i])>>
  /\ markerRuns' = [j \in 1..(Len(markerRuns) - 1) |->
                      IF j < i THEN markerRuns[j] ELSE markerRuns[j + 1]]
  /\ UNCHANGED <<now, position, selectedService, address, isLoadingAddress,
                 geocodingTimeoutId, timers, reassignQ, inflight, nextId,
                 changeLog, lookups, addressFrom>>
  /\ UNCHANGED <<geoVars, fmtVars, mapVars>>

\* position.value = v, and the watchers it triggers
AssignPosition(v, cause) ==
  /\ position' = v
  /\ watchPositionMarkers(v)
  /\ timers' = TimersAfterChange(timers, geocodingTimeoutId,
                 [id |-> nextId, due |-> now + Debounce, pos |-> v, cause |-> cause])
  /\ geocodingTimeoutId' = nextId
  /\ nextId' = nextId + 1
  /\ changeLog' = Append(changeLog, now)

\* the Input Map emits update:modelValue
UserSetsPosition(v) ==
  /\ Len(changeLog) + Len(reassignQ) < MaxChanges
  /\ v # position
  /\ AssignPosition(v, "user")
  /\ UNCHANGED <<now, selectedService, address, isLoadingAddress, reassignQ,
                 inflight, lookups, addressFrom>>
  /\ UNCHANGED <<geoVars, fmtVars, mapVars>>

\* the radio buttons; watch(selectedService) up to its await
SelectService(s) ==
  /\ s # selectedService
  /\ Len(changeLog) + Len(reassignQ) < MaxChanges
  /\ selectedService' = s
  /\ reassignQ' = IF IsSet(position)
                    THEN Append(reassignQ, [pos |-> position, due |-> now])
                    ELSE reassignQ
  /\ UNCHANGED <<now, position, address, isLoadingAddress, geocodingTimeoutId,
                 timers, inflight, nextId, changeLog, lookups, addressFrom>>
  /\ UNCHANGED <<customMarkers, markerRuns, geoVars, fmtVars, mapVars>>

\* watch(selectedService) after its await: position.value = { ...currentPosition }
ReassignFire ==
  /\ reassignQ # <<>>
  /\ \A t \in timers : t.due >= Head(reassignQ).due
  /\ AssignPosition(Head(reassignQ).pos, "switch")
  /\ reassignQ' = Tail(reassignQ)
  /\ UNCHANGED <<now, selectedService, address, isLoadingAddress, inflight,
                 lookups, addressFrom>>
  /\ UNCHANGED <<geoVars, fmtVars, mapVars>>

\* getReverseGeocodeFunction
getReverseGeocodeFunction(s) ==
  IF s = "googlemaps" THEN "googlemaps" ELSE "openstreetmap"

\* the debounce timer fires: performReverseGeocoding(newPosition) up to its await
TimerFire(t) ==
  /\ t \in timers
  /\ now >= t.due
  /\ \A i \in 1..Len(reassignQ) : reassignQ[i].due >= t.due
  /\ timers' = timers \ {t}
  /\ nextId' = nextId + 1
  /\ IF IsSet(t.pos)
       THEN LET svc == getReverseGeocodeFunction(selectedService)
                cfgThrows == svc = "googlemaps"
                             /\ initGoogleMapsThrows(googleMapsInitialized, apiKey)
            IN /\ lookups' = Append(lookups,
                     [id |-> nextId, at |-> now, pos |-> t.pos, svc |-> svc,
                      cause |-> t.cause])
               /\ IF cfgThrows
                    \* reverseGeocode returns null before any await
                    THEN /\ address' = AddressFor(gmapsReverseGeocode(TRUE, GoogleOutcomeBase))
                         /\ isLoadingAddress' = FALSE
                         /\ addressFrom' = nextId
                         /\ UNCHANGED <<inflight, googleMapsInitialized>>
                    ELSE /\ isLoadingAddress' = TRUE
                         /\ inflight' = inflight \cup
                              {[id |-> nextId, svc |-> svc, pos |-> t.pos]}
                         /\ googleMapsInitialized' =
                              IF svc = "googlemaps"
                                THEN initGoogleMapsDone(googleMapsInitialized, apiKey)
                                ELSE googleMapsInitialized
                         /\ UNCHANGED <<address, addressFrom>>
       ELSE /\ address' = ""
            /\ isLoadingAddress' = FALSE
            /\ addressFrom' = nextId
            /\ UNCHANGED <<lookups, inflight, googleMapsInitialized>>
  /\ UNCHANGED <<now, position, selectedService, geocodingTimeoutId, reassignQ,
                 changeLog, customMarkers, markerRuns>>
  /\ UNCHANGED <<apiKey, geoCall, geoResult, fmtVars, mapVars>>

\* whether the response of lookup r may write address / isLoadingAddress
MayWrite(r) == TRUE

\* the provider answers lookup r: performReverseGeocoding after its await
Respond(r, result) ==
  /\ r \in inflight
  /\ inflight' = inflight \ {r}
  /\ IF MayWrite(r)
       THEN /\ address' = AddressFor(result)
            /\ isLoadingAddress' = FALSE
            /\ addressFrom' = r.id
       ELSE UNCHANGED <<address, isLoadingAddress, addressFrom>>
  /\ UNCHANGED <<now, position, selectedService, geocodingTimeoutId, timers,
                 reassignQ, nextId, changeLog, lookups>>
  /\ UNCHANGED <<customMarkers, markerRuns, geoVars, fmtVars, mapVars>>

RespondOsm ==
  \E r \in inflight, o \in OsmOutcomes :
    r.svc = "openstreetmap" /\ Respond(r, osmReverseGeocode(o))

RespondGoogle ==
  \E r \in inflight, o \in GoogleOutcomes :
    r.svc = "googlemaps" /\ Respond(r, gmapsReverseGeocode(FALSE, o))

Tick ==
  /\ now + TickMs <= MaxTime
  /\ now' = now + TickMs
  /\ UNCHANGED <<position, selectedService, address, isLoadingAddress,
                 geocodingTimeoutId, timers, reassignQ, inflight, nextId,
                 changeLog, lookups, addressFrom>>
  /\ UNCHANGED <<customMarkers, markerRuns, geoVars, fmtVars, mapVars>>

\* ---------------------------------------------------------------------
\* State of one map component instance
\* ---------------------------------------------------------------------

\* `null` in a map reference; SDK maps are numbered from 1
NoMap == 0

\* an optional center / zoom / source that is undefined
UndefCenter == <<>>
UndefZoom == Null
NoSource == [type |-> Undef]

\* the module-level `let` state of a component after setup: every map
\* reference null, nothing created.  maps is the set of SDK maps that were
\* constructed on the container and not torn down; the four counters and
\* errors record what has run.
NewInstance ==
  [leafletMap |-> NoMap, mapLibreMap |-> NoMap, olMap |-> NoMap,
   googleMap |-> NoMap, marker |-> NoMap, markerPos |-> UnsetPosition,
   localValue |-> UnsetPosition,
   maps |-> {},
   emitted |-> <<>>, echo |-> 0,
   initCalls |-> 0, inits |-> 0, destroyCalls |-> 0, destroys |-> 0,
   errors |-> 0]

NoProps ==
  [engine |-> Undef, source |-> NoSource, center |-> UndefCenter,
   zoom |-> UndefZoom, markers |-> <<>>, mapId |-> Undef,
   colorScheme |-> Undef, mode |-> Undef, clickable |-> FALSE,
   modelValue |-> UnsetPosition, lat |-> Null, lng |-> Null]

\* no map component is present
MapIdle ==
  /\ comp = "none"
  /\ phase = "setup"
  /\ props = NoProps
  /\ inst = NewInstance
  /\ pending = <<>>
  /\ last = "none"

CoordInit ==
  /\ now = 0
  /\ position = UnsetPosition
  /\ selectedService = "openstreetmap"
  /\ address = ""
  /\ isLoadingAddress = FALSE
  /\ geocodingTimeoutId = Null
  /\ timers = {}
  /\ reassignQ = <<>>
  /\ inflight = {}
  /\ nextId = 1
  /\ changeLog = <<>>
  /\ lookups = <<>>
  /\ addressFrom = 0
  /\ customMarkers = <<>>
  /\ markerRuns = <<>>

GeoIdle ==
  /\ googleMapsInitialized = FALSE
  /\ geoCall = <<>>
  /\ geoResult = <<>>

FmtIdle ==
  /\ fmtIn = EmptyAddr
  /\ fmtOut = Undef

InitCoord ==
  /\ MapIdle
  /\ CoordInit
  /\ apiKey \in {Placeholder, "AIza-demo-key"}
  /\ GeoIdle
  /\ FmtIdle

NextCoord ==
  \/ \E v \in PosValues : UserSetsPosition(v)
  \/ \E s \in Services : SelectService(s)
  \/ ReassignFire
  \/ \E t \in timers : TimerFire(t)
  \/ RespondOsm
  \/ RespondGoogle
  \/ Tick

vars == <<coordVars, geoVars, fmtVars, mapVars>>

SpecCoord == InitCoord /\ [][NextCoord]_vars

\* the coordinator's markers: the assignments to position and the ends of
\* the marker watcher's runs, in any order
NextMarkers ==
  \/ \E v \in PosValues : UserSetsPosition(v)
  \/ \E s \in Services : SelectService(s)
  \/ ReassignFire
  \/ \E i \in 1..Len(markerRuns) : MarkerRunEnds(i)
  \/ Tick

SpecMarkers == InitCoord /\ [][NextMarkers]_vars

-----------------------------------------------------------------------------
(* Claims about the Root Coordinator *)

Last(seq) == seq[Len(seq)]
BurstTimes == <<0, 200, 400>>
LookupStarts == Len(lookups') > Len(lookups)

\* C1: a lookup starts only when Debounce ms have passed since the most recent
\* assignment to position, and with the value of that assignment; at most
\* one debounce timer is pending at any time; after assignments at exactly
\* t = 0, 200, 400 there is never more than one lookup, it starts at
\* t >= 1400 with the value set at t = 400, and once the timer has fired there
\* is exactly one.
C1_Debounce ==
  /\ [](Cardinality(timers) <= 1)
  /\ [][LookupStarts =>
          /\ now >= Last(changeLog) + Debounce
          /\ Last(lookups').pos = position
          /\ Last(lookups').at = now]_vars
  /\ []((changeLog = BurstTimes /\ IsSet(position)) =>
          /\ Len(lookups) <= 1
          /\ \A i \in 1..Len(lookups) :
               lookups[i].at >= 400 + Debounce /\ lookups[i].pos = position
          /\ (timers = {} => Len(lookups) = 1))

\* C1 witness: the burst happened and its single lookup has started
C1_Witness ==
  /\ changeLog = BurstTimes
  /\ Len(lookups) = 1
  /\ lookups[1].at >= 1400
  /\ lookups[1].pos = position
  /\ timers = {}

\* C2: once no lookup is in flight, address was written by the lookup that
\* started last (a response to an earlier lookup that arrives after a later
\* one started is discarded).
C2_LatestLookupWrites ==
  (Len(lookups) >= 2 /\ inflight = {}) => addressFrom >= Last(lookups).id

\* C3: once the lookup that a provider switch triggered has resolved, address is
\* not written by a lookup that started before it (the old provider's result
\* does not overwrite the new provider's).
C3_OldProviderNeverOverwrites ==
  \A i \in 1..Len(lookups) :
    (lookups[i].cause = "switch" /\ \A r \in inflight : r.id # lookups[i].id)
      => addressFrom >= lookups[i].id

-----------------------------------------------------------------------------
(* The geocoding services called directly: one call at a time, any answer *)

GeoLats == {1, 2}
GeoLngs == {1, 2}

Settled(svc, lat, lng, cfgThrows, o, g, value) ==
  <<[svc |-> svc, lat |-> lat, lng |-> lng, cfgThrows |-> cfgThrows,
     osm |-> o, google |-> g, value |-> value]>>

\* reverseGeocode(lat, lon) up to its first await
GeoCall(svc, lat, lng) ==
  /\ geoCall = <<>>
  /\ LET cfgThrows == svc = "googlemaps"
                      /\ initGoogleMapsThrows(googleMapsInitialized, apiKey)
     IN IF cfgThrows
          THEN /\ geoResult' = Settled(svc, lat, lng, TRUE, OsmOutcomeBase,
                                       GoogleOutcomeBase,
                                       gmapsReverseGeocode(TRUE, GoogleOutcomeBase))
               /\ UNCHANGED <<geoCall, googleMapsInitialized>>
          ELSE /\ geoCall' = <<[svc |-> svc, lat |-> lat, lng |-> lng]>>
               /\ geoResult' = <<>>
               /\ googleMapsInitialized' =
                    IF svc = "googlemaps"
                      THEN initGoogleMapsDone(googleMapsInitialized, apiKey)
                      ELSE googleMapsInitialized
  /\ UNCHANGED <<apiKey, coordVars, fmtVars, mapVars>>

\* Nominatim (or the network) answers
GeoSettleOsm(o) ==
  /\ geoCall # <<>>
  /\ geoCall[1].svc = "openstreetmap"
  /\ geoResult' = Settled("openstreetmap", geoCall[1].lat, geoCall[1].lng, FALSE,
                          o, GoogleOutcomeBase, osmReverseGeocode(o))
  /\ geoCall' = <<>>
  /\ UNCHANGED <<apiKey, googleMapsInitialized, coordVars, fmtVars, mapVars>>

\* the Google library answers
GeoSettleGoogle(g) ==
  /\ geoCall # <<>>
  /\ geoCall[1].svc = "googlemaps"
  /\ geoResult' = Settled("googlemaps", geoCall[1].lat, geoCall[1].lng, FALSE,
                          OsmOutcomeBase, g, gmapsReverseGeocode(FALSE, g))
  /\ geoCall' = <<>>
  /\ UNCHANGED <<apiKey, googleMapsInitialized, coordVars, fmtVars, mapVars>>

InitGeo ==
  /\ MapIdle
  /\ CoordInit
  /\ apiKey \in ApiKeys
  /\ GeoIdle
  /\ FmtIdle

NextGeo ==
  \/ \E svc \in Services, lat \in GeoLats, lng \in GeoLngs : GeoCall(svc, lat, lng)
  \/ \E o \in OsmOutcomes : GeoSettleOsm(o)
  \/ \E g \in GoogleOutcomes \cup ExtractOutcomes : GeoSettleGoogle(g)

SpecGeo == InitGeo /\ [][NextGeo]_vars

\* the cases in which the claim says the call resolves to null
NullCase(r) ==
  IF r.svc = "openstreetmap"
    THEN \/ r.osm.fetch = "reject"            \* transport error
         \/ ~r.osm.ok                         \* non-2xx status
         \/ r.osm.json = "reject"             \* body is not JSON
         \/ r.osm.dataNull
         \/ ~Truthy(r.osm.display_name)       \* missing display_name
    ELSE \/ r.cfgThrows                       \* key missing or placeholder
         \/ r.google.load = "reject"          \* library failed to load
         \/ r.google.status # "OK"
         \/ r.google.resultsNull
         \/ r.google.results = <<>>

\* C4 as claimed: every call resolves (never rejects), to null exactly in the
\* listed cases, and otherwise to a result with a non-empty displayName.
C4_NonEmptyDisplayName ==
  geoResult # <<>> =>
    LET r == geoResult[1]
    IN /\ r.value.settle = "resolved"
       /\ r.value.isNull <=> NullCase(r)
       /\ ~r.value.isNull => Truthy(r.value.displayName)

\* C4 amended: every call resolves (never rejects), to null exactly in the
\* listed cases; otherwise Nominatim's result has the non-empty display_name
\* of the response, and Google's has the first result's formatted_address,
\* whatever it is.
C4_AlwaysResolves ==
  geoResult # <<>> =>
    LET r == geoResult[1]
    IN /\ r.value.settle = "resolved"
       /\ r.value.isNull <=> NullCase(r)
       /\ ~r.value.isNull =>
            IF r.svc = "openstreetmap"
              THEN /\ Truthy(r.value.displayName)
                   /\ r.value.displayName = r.osm.display_name
              ELSE r.value.displayName = r.google.results[1].formatted_address

\* C4 witness: a Google call that resolved to a result, and a configured key
C4_Witness ==
  /\ geoResult # <<>>
  /\ geoResult[1].svc = "googlemaps"
  /\ ~geoResult[1].value.isNull
  /\ googleMapsInitialized

-----------------------------------------------------------------------------
(* formatAddress called on any address *)

FieldValues ==
  [house_number |-> {Undef, "", "10"},
   road         |-> {Undef, "", "Main St"},
   suburb       |-> {Undef, "Riverside"},
   city         |-> {Undef, "", "Springfield"},
   town         |-> {Undef, "Shelbyville"},
   village      |-> {Undef, "Ogdenville"},
   county       |-> {Undef, "Clark County"},
   state        |-> {Undef, "Nevada"},
   postcode     |-> {Undef, "89101"},
   country      |-> {Undef, "USA"},
   country_code |-> {Undef, "us"}]

\* the caller builds the address object
SetField(f, v) ==
  /\ fmtIn[f] # v
  /\ fmtIn' = [fmtIn EXCEPT ![f] = v]
  /\ fmtOut' = Undef
  /\ UNCHANGED <<coordVars, geoVars, mapVars>>

\* formatAddress(address)
CallFormatAddress ==
  /\ fmtOut = Undef
  /\ fmtOut' = formatAddress(fmtIn)
  /\ UNCHANGED <<fmtIn, coordVars, geoVars, mapVars>>

InitFmt ==
  /\ MapIdle
  /\ CoordInit
  /\ apiKey = Undef
  /\ GeoIdle
  /\ FmtIdle

NextFmt ==
  \/ \E f \in DOMAIN FieldValues : \E v \in FieldValues[f] : SetField(f, v)
  \/ CallFormatAddress

SpecFmt == InitFmt /\ [][NextFmt]_vars

ExampleAddr ==
  [EmptyAddr EXCEPT !.house_number = "10", !.road = "Main St",
                    !.city = "Springfield", !.country = "USA"]

\* the first part of the line: "house_number road", or road alone
Street(a) ==
  IF ~Truthy(a.road) THEN ""
  ELSE IF Truthy(a.house_number) THEN a.house_number \o " " \o a.road
  ELSE a.road

\* the candidate parts in the order the claim fixes; country_code is not one
Candidates(a) ==
  <<Street(a), a.suburb, a.city, a.town, a.village, a.county, a.state,
    a.postcode, a.country>>

\* C5: formatAddress returns the present (non-empty) parts, in the fixed order
\* street, suburb, city, town, village, county, state, postcode, country,
\* joined with ", "; the empty string when none is present; and
\* "10 Main St, Springfield, USA" for the example address.
C5_FormatAddress ==
  fmtOut # Undef =>
    /\ fmtOut = Join(SelectSeq(Candidates(fmtIn), Truthy), ", ")
    /\ (\A i \in 1..Len(Candidates(fmtIn)) : ~Truthy(Candidates(fmtIn)[i]))
         => fmtOut = ""
    /\ fmtIn = ExampleAddr => fmtOut = "10 Main St, Springfield, USA"
    /\ fmtIn = [EmptyAddr EXCEPT !.house_number = "10", !.country_code = "us"]
         => fmtOut = ""

\* C5 witness: formatAddress was called on the example address
C5_Witness ==
  /\ fmtIn = ExampleAddr
  /\ fmtOut = "10 Main St, Springfield, USA"

\* =====================================================================
\* Map components
\* =====================================================================

\* Coordinates of the map components are integers counting 10^-7 degree, so
\* that a seventh decimal digit can be told from none.
\* +x.toFixed(6): x rounded to six decimal digits
toFixed6(x) ==
  IF x >= 0 THEN ((x + 5) \div 10) * 10 ELSE 0 - (((0 - x) + 5) \div 10) * 10

toFixed6Pos(c) == [lat |-> toFixed6(c.lat), lng |-> toFixed6(c.lng)]

\* ---- what each SDK makes of the coordinate pair it is handed ----
\* Leaflet: L.map().setView([a, b]) and L.marker([a, b]) read [lat, lng]
LeafletLatLng(a) == [lat |-> a[1], lng |-> a[2]]
\* MapLibre: center / setCenter / setLngLat read [lng, lat]
MapLibreLngLat(a) == [lng |-> a[1], lat |-> a[2]]
\* OpenLayers: fromLonLat reads [lon, lat]
fromLonLat(a) == [lng |-> a[1], lat |-> a[2]]
\* Google: a literal { lat, lng }
GoogleLatLng(la, ln) == [lat |-> la, lng |-> ln]

\* ---- props ----
Engines == {"leaflet", "maplibre", "openlayers", "google"}
RasterA == [type |-> "raster", urlTemplate |-> "https://a.example/{z}/{x}/{y}.png"]
RasterB == [type |-> "raster", urlTemplate |-> "https://b.example/{z}/{x}/{y}.png"]
GoogleSrc == [type |-> "google", apiKey |-> "AIza-demo-key", mapId |-> Undef]
Sources == {RasterA, RasterB, GoogleSrc}
Centers == {<<10, 20>>, <<30, 40>>}
Zooms == {3, 5}
M1 == [lat |-> 50, lng |-> 60]
MarkerLists == {<<>>, <<M1>>}

\* the number of initMap calls explored per instance
MaxInits == 2

DefaultCenter == <<0, 0>>
DefaultZoom == 2
OsmTiles == "https://{s}.tile.openstreetmap.org/{z}/{x}/{y}.png"
DemoStyle == "https://demotiles.maplibre.org/style.json"

\* const activeEngine = computed(() => props.engine ?? "leaflet")
activeEngine(p) == IF p.engine = Undef THEN "leaflet" ELSE p.engine

\* props.center ?? [0, 0] and props.zoom ?? 2
initialCenter(p) == IF p.center = UndefCenter THEN DefaultCenter ELSE p.center
initialZoom(p) == IF p.zoom = UndefZoom THEN DefaultZoom ELSE p.zoom

\* the reference variable that holds an engine's map
RefOf(e) ==
  CASE e = "leaflet" -> "leafletMap"
    [] e = "maplibre" -> "mapLibreMap"
    [] e = "openlayers" -> "olMap"
    [] e = "google" -> "googleMap"

\* the maps the component's references point at
Referenced(b) ==
  {b.leafletMap, b.mapLibreMap, b.olMap, b.googleMap} \ {NoMap}

\* an SDK map constructed on the container
NewMap(b, e, c, z, base, mid, cs) ==
  [id |-> b.inits + 1, engine |-> e, center |-> c, zoom |-> z, base |-> base,
   mapId |-> mid, colorScheme |-> cs, markers |-> <<>>,
   loaded |-> (e # "maplibre"), idlePending |-> FALSE]

\* <ref> = new <SDK map>(mapContainer.value, ...)
Construct(b, ref, m) ==
  [b EXCEPT ![ref] = m.id, !.maps = @ \cup {m}, !.inits = @ + 1]

\* ---- BaseMap.vue ----

\* destroyMap: each non-null reference is torn down and set to null
destroyMap(b) ==
  [b EXCEPT !.leafletMap = NoMap, !.mapLibreMap = NoMap, !.olMap = NoMap,
            !.googleMap = NoMap,
            !.maps = {m \in @ : m.id \notin Referenced(b)},
            !.destroys = @ + Cardinality(Referenced(b)),
            !.destroyCalls = @ + 1]

\* where updateMarkers puts a marker, per engine
PlaceMarker(e, m) ==
  CASE e = "leaflet" -> LeafletLatLng(<<m.lat, m.lng>>)
    [] e = "maplibre" -> MapLibreLngLat(<<m.lng, m.lat>>)
    [] e = "openlayers" -> fromLonLat(<<m.lng, m.lat>>)
    [] e = "google" -> GoogleLatLng(m.lat, m.lng)

\* updateMarkers: on the ACTIVE engine's map, if its reference is set, the
\* component's marker list for that engine is emptied and refilled
updateMarkers(b, p) ==
  LET e == activeEngine(p)
      ms == p.markers
      placed == [i \in 1..Len(ms) |-> PlaceMarker(e, ms[i])]
  IN IF b[RefOf(e)] = NoMap THEN b
     ELSE [b EXCEPT !.maps =
             {IF m.id = b[RefOf(e)] THEN [m EXCEPT !.markers = placed]
              ELSE IF m.engine = e THEN [m EXCEPT !.markers = <<>>]
              ELSE m : m \in @}]

\* the map a reference points at
MapOf(b, id) == CHOOSE m \in b.maps : m.id = id

\* a setter applied to it: new is what the setter makes of the map
OnMap(b, id, new) ==
  [b EXCEPT !.maps = {IF m.id = id THEN new ELSE m : m \in @}]

\* OpenLayers: toLonLat gives [lon, lat]
toLonLat(c) == <<c.lng, c.lat>>

\* emit(ev, { lat, lng }): the events a handler emitted, in order
Emit(b, ev, la, ln) ==
  [b EXCEPT !.emitted = Append(@, [event |-> ev, lat |-> la, lng |-> ln])]

\* emitLeafletCenter / emitMapLibreCenter / emitOlCenter / emitGoogleCenter:
\* nothing without the engine's map, else center-change with its getCenter()
emitCenter(b, e) ==
  LET c == MapOf(b, b[RefOf(e)]).center
      lonlat == toLonLat(c)
  IN IF b[RefOf(e)] = NoMap THEN b
     ELSE IF e = "openlayers"
            THEN Emit(b, "center-change", lonlat[2], lonlat[1])
     ELSE Emit(b, "center-change", c.lat, c.lng)

initLeaflet(b, p) ==
  LET src == p.source
      tiles == IF src.type = "raster" THEN src.urlTemplate ELSE OsmTiles
  IN updateMarkers(
       emitCenter(
         Construct(b, "leafletMap",
                   NewMap(b, "leaflet", LeafletLatLng(initialCenter(p)),
                          initialZoom(p), tiles, Undef, Undef)),
         "leaflet"), p)

\* the markers of a MapLibre map are placed by its "load" event
initMapLibre(b, p) ==
  LET src == p.source
      styleUrl == IF src.type = "maplibre-style" THEN src.styleUrl ELSE DemoStyle
      c == initialCenter(p)
  IN Construct(b, "mapLibreMap",
               NewMap(b, "maplibre", MapLibreLngLat(<<c[2], c[1]>>),
                      initialZoom(p), styleUrl, Undef, Undef))

initOpenLayers(b, p) ==
  LET src == p.source
      baseLayer == IF src.type = "raster" THEN src.urlTemplate ELSE "OSM"
      c == initialCenter(p)
  IN updateMarkers(
       emitCenter(
         Construct(b, "olMap",
                   NewMap(b, "openlayers", fromLonLat(<<c[2], c[1]>>),
                          initialZoom(p), baseLayer, Undef, Undef)),
         "openlayers"), p)

\* initGoogleMaps up to its await: the continuations it leaves behind (none
\* when the source is not a Google source with an apiKey), each holding the
\* values captured before the await
Continuation(c, z, src, restore) ==
  [center |-> c, zoom |-> z, src |-> src, restore |-> restore]

initGoogleMaps(p) ==
  LET src == p.source
  IN IF src.type # "google" \/ ~Truthy(src.apiKey) THEN <<>>
     ELSE <<Continuation(initialCenter(p), initialZoom(p), src, <<>>)>>

\* initGoogleMaps after the await: the map is constructed on
\* mapContainer.value as it is NOW, then updateMarkers runs for the engine
\* that is active NOW.  The Google constructor throws when handed null.
initGoogleMapsResume(b, p, k, container) ==
  IF ~container THEN [b EXCEPT !.errors = @ + 1]
  ELSE updateMarkers(
         emitCenter(
           Construct(b, "googleMap",
                     NewMap(b, "google", GoogleLatLng(k.center[1], k.center[2]),
                            k.zoom, "google", k.src.mapId, Undef)),
           "google"), p)

\* initMap: destroyMap, then the active engine's init (the synchronous part)
initMap(b, p, container) ==
  LET d == [destroyMap(b) EXCEPT !.initCalls = @ + 1]
      e == activeEngine(p)
  IN IF ~container THEN d
     ELSE CASE e = "leaflet" -> initLeaflet(d, p)
            [] e = "maplibre" -> initMapLibre(d, p)
            [] e = "openlayers" -> initOpenLayers(d, p)
            [] e = "google" -> d

\* the continuations an initMap call leaves behind
initMapAwaits(p, container) ==
  IF container /\ activeEngine(p) = "google" THEN initGoogleMaps(p) ELSE <<>>

\* the argument each engine's setView / setCenter is handed for [lat, lng]
CenterForAsGiven(e, c) ==
  CASE e = "leaflet" -> LeafletLatLng(c)
    [] e = "maplibre" -> MapLibreLngLat(c)
    [] e = "openlayers" -> fromLonLat(c)
    [] e = "google" -> GoogleLatLng(c[1], c[2])

CenterFor(e, c) ==
  CASE e = "leaflet" -> LeafletLatLng(c)
    [] e = "maplibre" -> MapLibreLngLat(<<c[2], c[1]>>)
    [] e = "openlayers" -> fromLonLat(<<c[2], c[1]>>)
    [] e = "google" -> GoogleLatLng(c[1], c[2])

watchCenterKeepsOld(b, p, newCenter) == b

\* watch(() => props.center)
watchCenter(b, p, newCenter) ==
  LET e == activeEngine(p)
      set(m) == [m EXCEPT !.center = CenterFor(e, newCenter),
                          !.idlePending = TRUE]
  IN IF newCenter = UndefCenter \/ b[RefOf(e)] = NoMap THEN b
     ELSE OnMap(b, b[RefOf(e)],
             set(MapOf(b, b[RefOf(e)])))

\* watch(() => props.zoom)
watchZoom(b, p, newZoom) ==
  LET e == activeEngine(p)
      set(m) == [m EXCEPT !.zoom = newZoom, !.idlePending = TRUE]
  IN IF newZoom = UndefZoom \/ b[RefOf(e)] = NoMap THEN b
     ELSE OnMap(b, b[RefOf(e)],
             set(MapOf(b, b[RefOf(e)])))

\* ---- DisplayGoogle.vue ----

\* the positions of a list of markers
MarkerPositions(ms) ==
  [i \in 1..Len(ms) |-> [lat |-> ms[i].lat, lng |-> ms[i].lng]]

\* half the extent of the viewport in either direction
ViewHalf == 25

\* LatLngBounds.contains for the viewport around center c
Contains(c, x) ==
  /\ x.lat >= c.lat - ViewHalf /\ x.lat <= c.lat + ViewHalf
  /\ x.lng >= c.lng - ViewHalf /\ x.lng <= c.lng + ViewHalf

SeqMin(f) == CHOOSE x \in {f[i] : i \in 1..Len(f)} :
               \A j \in 1..Len(f) : x <= f[j]
SeqMax(f) == CHOOSE x \in {f[i] : i \in 1..Len(f)} :
               \A j \in 1..Len(f) : x >= f[j]

\* the center of the LatLngBounds extended by every marker position
BoundsCenter(ms) ==
  LET lats == [i \in 1..Len(ms) |-> ms[i].lat]
      lngs == [i \in 1..Len(ms) |-> ms[i].lng]
  IN [lat |-> (SeqMin(lats) + SeqMax(lats)) \div 2,
      lng |-> (SeqMin(lngs) + SeqMax(lngs)) \div 2]

MapIds == {"map-1", "map-2"}
ColorSchemes == {"LIGHT", "DARK"}

\* destroyMap: the attached markers are detached, the reference is dropped
DisplayGoogle_destroyMap(b) ==
  [b EXCEPT !.googleMap = NoMap,
            !.maps = {m \in @ : m.id # b.googleMap},
            !.destroys = @ + (IF b.googleMap = NoMap THEN 0 ELSE 1),
            !.destroyCalls = @ + 1]

\* initMap up to its first await: destroyMap, the container check, and the
\* capture of initialCenter / initialZoom from the props
DisplayGoogle_initMapKeepsMap(b) == [b EXCEPT !.initCalls = @ + 1]

\* initMap up to its first await: destroyMap
DisplayGoogle_initMap(b) ==
  [DisplayGoogle_destroyMap(b) EXCEPT !.initCalls = @ + 1]

DisplayGoogle_initMapAwaits(p, container) ==
  IF ~container THEN <<>>
  ELSE <<Continuation(initialCenter(p), p.zoom, NoSource, <<>>)>>

\* initMap after nextTick / importLibrary: the map is constructed with the
\* captured center and zoom and with the mapId / colorScheme of NOW
\* (the viewport is not known yet, so every marker counts as visible and is
\* attached; the first "idle" follows)
DisplayGoogle_initMapResume(b, p, k, container) ==
  LET m == NewMap(b, "google", GoogleLatLng(k.center[1], k.center[2]),
                  k.zoom, "google", p.mapId, p.colorScheme)
  IN IF ~container THEN [b EXCEPT !.errors = @ + 1]
     ELSE Construct(b, "googleMap",
                    [m EXCEPT !.markers = MarkerPositions(p.markers),
                              !.idlePending = TRUE])

\* watch(() => props.center) and watch(() => props.zoom)
DisplayGoogle_watchCenter(b, newCenter) ==
  LET set(m) == [m EXCEPT !.center = GoogleLatLng(newCenter[1], newCenter[2]),
                          !.idlePending = TRUE]
  IN IF newCenter = UndefCenter \/ b.googleMap = NoMap THEN b
     ELSE OnMap(b, b.googleMap,
             set(MapOf(b, b.googleMap)))

DisplayGoogle_watchZoom(b, newZoom) ==
  LET set(m) == [m EXCEPT !.zoom = newZoom, !.idlePending = TRUE]
  IN IF newZoom = UndefZoom \/ b.googleMap = NoMap THEN b
     ELSE OnMap(b, b.googleMap,
             set(MapOf(b, b.googleMap)))

\* fitMapToMarkers: fitBounds on the markers' bounding box; for a single
\* marker the zoom is capped at 15
FitZoom == 15
DisplayGoogle_fitMapToMarkers(m, ms) ==
  IF Len(ms) = 0 THEN m
  ELSE [m EXCEPT !.center = BoundsCenter(ms),
                 !.zoom = IF Len(ms) = 1 /\ @ > FitZoom THEN FitZoom ELSE @,
                 !.idlePending = TRUE]

DisplayGoogle_attachMarkersNoDetach(b, p) ==
  LET m == MapOf(b, b.googleMap)
  IN IF b.googleMap = NoMap THEN b
     ELSE OnMap(b, b.googleMap,
                DisplayGoogle_fitMapToMarkers(
                  [m EXCEPT !.markers = @ \o MarkerPositions(p.markers)],
                  p.markers))

\* attachMarkers: nothing without a map, else the attached markers are
\* detached, every marker of props.markers is attached, and the map is
\* fitted to them
DisplayGoogle_attachMarkers(b, p) ==
  LET m == MapOf(b, b.googleMap)
  IN IF b.googleMap = NoMap THEN b
     ELSE OnMap(b, b.googleMap,
                DisplayGoogle_fitMapToMarkers(
                  [m EXCEPT !.markers = MarkerPositions(p.markers)],
                  p.markers))

\* attachVisibleMarkers: nothing without a map, else the attached markers are
\* detached and the markers inside the current bounds are attached
DisplayGoogle_attachVisibleMarkers(b, p) ==
  LET m == MapOf(b, b.googleMap)
  IN IF b.googleMap = NoMap THEN b
     ELSE OnMap(b, b.googleMap,
                [m EXCEPT !.markers =
                   SelectSeq(MarkerPositions(p.markers),
                             LAMBDA x : Contains(m.center, x))])

\* ---- the Google input component ----

Modes == {"click", "center", "drag"}
ModelValues == {UnsetPosition, [lat |-> 70, lng |-> 80]}

InputGoogle_destroyMapUnguarded(b) ==
  [b EXCEPT !.marker = NoMap, !.markerPos = UnsetPosition,
            !.googleMap = NoMap,
            !.maps = {m \in @ : m.id # b.googleMap},
            !.destroys = @ + 1,
            !.destroyCalls = @ + 1]

\* destroyMap: the marker is detached and dropped, the reference is dropped
InputGoogle_destroyMap(b) ==
  [b EXCEPT !.marker = NoMap, !.markerPos = UnsetPosition,
            !.googleMap = NoMap,
            !.maps = {m \in @ : m.id # b.googleMap},
            !.destroys = @ + (IF b.googleMap = NoMap THEN 0 ELSE 1),
            !.destroyCalls = @ + 1]

\* initMap up to its first await
InputGoogle_initMap(b) ==
  [InputGoogle_destroyMap(b) EXCEPT !.initCalls = @ + 1]

InputGoogle_initMapAwaits(container, restore) ==
  IF ~container THEN <<>>
  ELSE <<Continuation(UndefCenter, UndefZoom, NoSource, restore)>>

\* the map the reference points at
TheMap(b) == MapOf(b, b.googleMap)

\* initMap after the two importLibrary awaits: the initial center is read
\* from localValue, else props.center, else (0, 0), all as they are NOW;
\* center mode reports the map's center at once, drag mode places the marker
\* and reports its position; then the caller of `await initMap()` restores
\* the saved center and zoom on whatever googleMap is
InputGoogle_initMapResume(b, p, k, container) ==
  LET lv == b.localValue
      c == IF IsSet(lv) THEN GoogleLatLng(lv.lat, lv.lng)
           ELSE IF p.center # UndefCenter
                  THEN GoogleLatLng(p.center[1], p.center[2])
           ELSE GoogleLatLng(0, 0)
      made == Construct(b, "googleMap",
                        NewMap(b, "google", c, p.zoom, "google",
                               p.mapId, p.colorScheme))
      listening ==
        CASE p.mode = "click" -> made
          [] p.mode = "center" -> [made EXCEPT !.localValue = toFixed6Pos(c)]
          [] p.mode = "drag" ->
               [made EXCEPT !.marker = made.googleMap, !.markerPos = c,
                            !.localValue = c]
      r == k.restore[1]
      restored(m) == [m EXCEPT !.center = r.center, !.zoom = r.zoom,
                               !.idlePending = (p.mode = "center"
                                                /\ (r.center # m.center
                                                    \/ r.zoom # m.zoom))]
  IN IF ~container THEN [b EXCEPT !.errors = @ + 1]
     ELSE IF k.restore = <<>> THEN listening
     ELSE OnMap(listening, listening.googleMap,
             restored(MapOf(listening, listening.googleMap)))

\* watch(() => props.center): applied in center mode only
InputGoogle_watchCenter(b, p, newCenter) ==
  LET set(m) == [m EXCEPT !.center = GoogleLatLng(newCenter[1], newCenter[2]),
                          !.idlePending = TRUE]
  IN IF newCenter = UndefCenter \/ b.googleMap = NoMap THEN b
     ELSE IF p.mode = "center" THEN OnMap(b, b.googleMap,
             set(MapOf(b, b.googleMap)))
     ELSE b

\* watch(() => props.zoom)
InputGoogle_watchZoom(b, p, newZoom) ==
  LET set(m) == [m EXCEPT !.zoom = newZoom,
                          !.idlePending = (p.mode = "center")]
  IN IF newZoom = UndefZoom \/ b.googleMap = NoMap THEN b
     ELSE OnMap(b, b.googleMap,
             set(MapOf(b, b.googleMap)))

\* watch([mapId, colorScheme]) up to `await initMap()`: center and zoom are
\* saved, the marker is cleaned up, destroyMap runs, and initMap starts
InputGoogle_watchMapStyle(b) ==
  InputGoogle_initMap(InputGoogle_destroyMap(b))

InputGoogle_watchMapStyleAwaits(b, container) ==
  InputGoogle_initMapAwaits(container,
    <<[center |-> TheMap(b).center, zoom |-> TheMap(b).zoom]>>)

\* ---- InputLeaflet.vue ----

\* destroyMap: leafletMap.remove(), the reference is dropped
InputLeaflet_destroyMap(b) ==
  [b EXCEPT !.leafletMap = NoMap,
            !.maps = {m \in @ : m.id # b.leafletMap},
            !.destroys = @ + (IF b.leafletMap = NoMap THEN 0 ELSE 1),
            !.destroyCalls = @ + 1]

\* initMap (synchronous): the initial center is localValue when it is set,
\* else props.center ?? [0, 0]; center mode reports the map's center at once
InputLeaflet_initMap(b, p, container) ==
  LET d == [InputLeaflet_destroyMap(b) EXCEPT !.initCalls = @ + 1]
      lv == d.localValue
      c == IF IsSet(lv) THEN <<lv.lat, lv.lng>> ELSE initialCenter(p)
      src == p.source
      tiles == IF src # NoSource THEN src.urlTemplate ELSE OsmTiles
      made == Construct(d, "leafletMap",
                        NewMap(d, "leaflet", LeafletLatLng(c), p.zoom, tiles,
                               Undef, Undef))
  IN IF ~container THEN d
     ELSE IF p.mode = "center"
            THEN [made EXCEPT !.localValue = toFixed6Pos(LeafletLatLng(c))]
     ELSE made

\* watch(() => props.center): applied in center mode only
InputLeaflet_watchCenter(b, p, newCenter) ==
  LET set(m) == [m EXCEPT !.center = LeafletLatLng(newCenter),
                          !.idlePending = TRUE]
  IN IF newCenter = UndefCenter \/ b.leafletMap = NoMap THEN b
     ELSE IF p.mode = "center" THEN OnMap(b, b.leafletMap,
             set(MapOf(b, b.leafletMap)))
     ELSE b

\* watch(() => props.zoom)
InputLeaflet_watchZoom(b, p, newZoom) ==
  LET set(m) == [m EXCEPT !.zoom = newZoom,
                          !.idlePending = (p.mode = "center")]
  IN IF newZoom = UndefZoom \/ b.leafletMap = NoMap THEN b
     ELSE OnMap(b, b.leafletMap,
             set(MapOf(b, b.leafletMap)))

\* ---- InputMap.vue (wraps BaseMap.vue) ----

\* const mode = computed(() => props.mode ?? "click")
InputMap_mode(p) == IF p.mode = Undef THEN "click" ELSE p.mode

\* currentCenter: the local value when it is set, else props.center ?? [0, 0]
currentCenter(p, lv) ==
  IF IsSet(lv) THEN <<lv.lat, lv.lng>> ELSE initialCenter(p)

\* displayMarkers: one marker at the local value when it is set
displayMarkers(lv) ==
  IF IsSet(lv) THEN <<[lat |-> lv.lat, lng |-> lv.lng]>> ELSE <<>>

InputMapDefaultZoom == 4

\* the props the template hands to <BaseMap>
ChildProps(p, lv) ==
  [NoProps EXCEPT
     !.engine = IF p.engine = Undef THEN "leaflet" ELSE p.engine,
     !.source = p.source,
     !.center = currentCenter(p, lv),
     !.zoom = IF p.zoom = UndefZoom THEN InputMapDefaultZoom ELSE p.zoom,
     !.markers = displayMarkers(lv),
     !.clickable = TRUE]

onMapClick(lv, p, pos) ==
  IF InputMap_mode(p) # "click" THEN lv ELSE toFixed6Pos(pos)

onCenterChangeAnyMode(lv, p, pos) == toFixed6Pos(pos)

onCenterChange(lv, p, pos) ==
  IF InputMap_mode(p) # "center" THEN lv ELSE toFixed6Pos(pos)

\* the events BaseMap emitted, handled in order
RECURSIVE HandleEvents(_, _, _)
HandleEvents(lv, p, evs) ==
  IF evs = <<>> THEN lv
  ELSE HandleEvents(
         IF Head(evs).event = "map-click"
           THEN onMapClick(lv, p, Head(evs))
           ELSE onCenterChange(lv, p, Head(evs)),
         p, Tail(evs))

\* the watchers of the wrapped BaseMap that run when the computed markers and
\* center it is handed change: updateMarkers, then the center setter
ChildWatchers(b, before, after) ==
  LET marked == IF after.markers # before.markers
                  THEN updateMarkers(b, after) ELSE b
  IN IF after.center # before.center
       THEN watchCenter(marked, after, after.center) ELSE marked

\* what InputMap makes of a step of the wrapped BaseMap: the emitted events
\* reach onMapClick / onCenterChange, and the BaseMap sees the props computed
\* from the local value that results
InputMap_settle(b, p, before) ==
  LET lv == HandleEvents(b.localValue, p, b.emitted)
  IN ChildWatchers([b EXCEPT !.localValue = lv], before, ChildProps(p, lv))

\* ---- the display components of one engine: DisplayLeaflet.vue,
\* ---- DisplayOpenLayers.vue and the MapLibre display component ----

DisplayComps == {"DisplayLeaflet", "DisplayOpenLayers", "DisplayMapLibre"}

DisplayEngineOf(c) ==
  CASE c = "DisplayLeaflet" -> "leaflet"
    [] c = "DisplayOpenLayers" -> "openlayers"
    [] c = "DisplayMapLibre" -> "maplibre"

\* withDefaults(defineProps<Props>(), { zoom: 12 })
DisplayDefaultZoom == 12
Display_zoom(p) == IF p.zoom = UndefZoom THEN DisplayDefaultZoom ELSE p.zoom

\* the pair handed to the SDK for the center and for the marker:
\* [props.lat, props.lng] to Leaflet, [props.lng, props.lat] to MapLibre and
\* to fromLonLat
Display_LatLng(e, p) ==
  CASE e = "leaflet" -> LeafletLatLng(<<p.lat, p.lng>>)
    [] e = "maplibre" -> MapLibreLngLat(<<p.lng, p.lat>>)
    [] e = "openlayers" -> fromLonLat(<<p.lng, p.lat>>)

\* destroyMap: nothing without a map, else the map is removed and the
\* references are dropped
Display_destroyMap(b, e) ==
  IF b[RefOf(e)] = NoMap THEN [b EXCEPT !.destroyCalls = @ + 1]
  ELSE [b EXCEPT ![RefOf(e)] = NoMap,
                 !.maps = {m \in @ : m.id # b[RefOf(e)]},
                 !.destroys = @ + 1,
                 !.destroyCalls = @ + 1]

\* updateMarkers / updateMarker: the marker layer is emptied and one marker
\* is put at (props.lat, props.lng); setLngLat on the MapLibre marker
Display_updateMarker(b, p, e) ==
  IF b[RefOf(e)] = NoMap THEN b
  ELSE OnMap(b, b[RefOf(e)],
             [MapOf(b, b[RefOf(e)]) EXCEPT !.markers = <<Display_LatLng(e, p)>>])

\* initMap: destroyMap, nothing more without the container, else a map
\* centered on (props.lat, props.lng) with its marker
Display_initMap(b, p, e, container) ==
  LET d == [Display_destroyMap(b, e) EXCEPT !.initCalls = @ + 1]
      src == p.source
      base == CASE e = "maplibre" ->
                     IF src.type = "maplibre-style" THEN src.styleUrl
                     ELSE DemoStyle
                [] OTHER ->
                     IF src.type = "raster" THEN src.urlTemplate ELSE OsmTiles
  IN IF ~container THEN d
     ELSE Display_updateMarker(
            Construct(d, RefOf(e),
                      NewMap(d, e, Display_LatLng(e, p), Display_zoom(p), base,
                             Undef, Undef)),
            p, e)

Display_watchLatLngCenterOnly(b, p, e) ==
  IF b[RefOf(e)] = NoMap THEN b
  ELSE OnMap(b, b[RefOf(e)],
             [MapOf(b, b[RefOf(e)]) EXCEPT !.center = Display_LatLng(e, p)])

\* watch(() => [props.lat, props.lng]): nothing without a map, else the view
\* is centered on the pair (Leaflet's setView also applies props.zoom) and
\* the marker is updated
Display_watchLatLng(b, p, e) ==
  LET m == MapOf(b, b[RefOf(e)])
  IN IF b[RefOf(e)] = NoMap THEN b
     ELSE Display_updateMarker(
            OnMap(b, b[RefOf(e)],
                  [m EXCEPT !.center = Display_LatLng(e, p),
                            !.zoom = IF e = "leaflet" THEN Display_zoom(p)
                                     ELSE @]),
            p, e)

\* watch(() => props.zoom)
Display_watchZoom(b, p, e, newZoom) ==
  IF newZoom = UndefZoom \/ b[RefOf(e)] = NoMap THEN b
  ELSE OnMap(b, b[RefOf(e)],
             [MapOf(b, b[RefOf(e)]) EXCEPT !.zoom = newZoom])

\* onBeforeUnmount(() => destroyMap())
Display_onBeforeUnmount(b, e) == Display_destroyMap(b, e)

\* ---- lifecycle hooks ----

\* BaseMap.vue: onBeforeUnmount(() => destroyMap())
onBeforeUnmount(b) == destroyMap(b)

\* DisplayGoogle.vue: onBeforeUnmount(() => destroyMap())
DisplayGoogle_onBeforeUnmount(b) == DisplayGoogle_destroyMap(b)

InputGoogle_onUnmountedIfMap(b) ==
  IF b.googleMap = NoMap THEN b ELSE InputGoogle_destroyMap(b)

\* the Google input component: onUnmounted(() => destroyMap())
InputGoogle_onUnmounted(b) == InputGoogle_destroyMap(b)

\* InputLeaflet.vue: onBeforeUnmount(() => destroyMap())
InputLeaflet_onBeforeUnmount(b) == InputLeaflet_destroyMap(b)

\* ---- actions: one per hook, watcher, continuation or SDK event ----

Components ==
  {"BaseMap", "DisplayGoogle", "InputGoogle", "InputLeaflet", "InputMap"}
    \cup DisplayComps

\* the components that bind a coordinate (v-model)
InputComps == {"InputGoogle", "InputLeaflet", "InputMap"}

\* BaseMap.vue on its own or wrapped by InputMap.vue
BaseLike == {"BaseMap", "InputMap"}

\* mapContainer.value is the element from mount to unmount, null otherwise
ContainerKept == phase \in {"mounted", "unmounted"}

\* mapContainer.value: the template ref is set while the component is mounted
Container == phase = "mounted"

OtherVars == <<coordVars, geoVars, fmtVars>>

\* the props BaseMap.vue sees
BaseProps(p, lv) == IF comp = "InputMap" THEN ChildProps(p, lv) ELSE p

\* a handler starts: nothing emitted yet
Fresh(b) == [b EXCEPT !.emitted = <<>>, !.echo = 0]

\* the rounds of emit / write-back explored before giving up
MaxRounds == 3

watchModelValueSwapped(newVal) == [lat |-> newVal.lng, lng |-> newVal.lat]

\* watch(() => props.modelValue): the local value takes newVal's lat and lng
watchModelValue(newVal) == [lat |-> newVal.lat, lng |-> newVal.lng]

RECURSIVE EchoAlways(_, _, _, _)
EchoAlways(lv, seen, mv, n) ==
  IF n >= MaxRounds
    THEN [localValue |-> lv, modelValue |-> mv, rounds |-> n]
    ELSE EchoAlways(watchModelValue(lv), lv, lv, n + 1)

\* watch(() => ({ ...localValue })) emits update:modelValue when the local
\* value changed, the parent (v-model) writes the payload into the bound prop,
\* watch(() => props.modelValue) copies it back; repeated while the local
\* value keeps changing
RECURSIVE Echo(_, _, _, _)
Echo(lv, seen, mv, n) ==
  IF lv = seen \/ n >= MaxRounds
    THEN [localValue |-> lv, modelValue |-> mv, rounds |-> n]
    ELSE Echo(watchModelValue(lv), lv, lv, n + 1)

\* InputMap.vue: what its handlers and the wrapped BaseMap's watchers make of
\* the step
Settle(b, p) ==
  IF comp = "InputMap"
    THEN InputMap_settle(b, p, ChildProps(props, inst.localValue))
    ELSE b

\* the step ends with instance b and props p, after the emit / write-back of
\* an input component
Publish(b, p) ==
  LET e == Echo(b.localValue, inst.localValue, p.modelValue, 0)
  IN IF comp \in InputComps
       THEN /\ inst' = [b EXCEPT !.localValue = e.localValue,
                                 !.echo = e.rounds]
            /\ props' = [p EXCEPT !.modelValue = e.modelValue]
       ELSE /\ inst' = b
            /\ props' = p

\* onMounted(() => initMap())
Mount ==
  /\ comp \in Components
  /\ phase = "setup"
  /\ phase' = "mounted"
  /\ LET bp == BaseProps(props, inst.localValue)
         b == CASE comp \in BaseLike -> initMap(Fresh(inst), bp, TRUE)
                [] comp = "DisplayGoogle" -> DisplayGoogle_initMap(Fresh(inst))
                [] comp = "InputGoogle" -> InputGoogle_initMap(Fresh(inst))
                [] comp = "InputLeaflet" ->
                     InputLeaflet_initMap(Fresh(inst), props, TRUE)
                [] comp \in DisplayComps ->
                     Display_initMap(Fresh(inst), props, DisplayEngineOf(comp),
                                     TRUE)
     IN /\ Publish(Settle(b, props), props)
        /\ pending' = pending \o
             (CASE comp \in BaseLike -> initMapAwaits(bp, TRUE)
                [] comp = "DisplayGoogle" ->
                     DisplayGoogle_initMapAwaits(props, TRUE)
                [] comp = "InputGoogle" -> InputGoogle_initMapAwaits(TRUE, <<>>)
                [] OTHER -> <<>>)
  /\ last' = "Mount"
  /\ UNCHANGED <<comp, OtherVars>>

\* the parent changes `engine`: watch(() => activeEngine.value) runs initMap
SetEngine(e) ==
  /\ comp \in BaseLike /\ Container
  /\ e # props.engine
  /\ inst.initCalls < MaxInits
  /\ LET p == [props EXCEPT !.engine = e]
         bp == BaseProps(p, inst.localValue)
     IN /\ Publish(Settle(initMap(Fresh(inst), bp, TRUE), p), p)
        /\ pending' = pending \o initMapAwaits(bp, TRUE)
  /\ last' = "SetEngine"
  /\ UNCHANGED <<comp, phase, OtherVars>>

\* the parent changes `source`: no watcher observes it
SetSource(src) ==
  /\ comp = "BaseMap" /\ Container
  /\ src # props.source
  /\ props' = [props EXCEPT !.source = src]
  /\ last' = "SetSource"
  /\ UNCHANGED <<comp, phase, inst, pending, OtherVars>>

\* the parent changes `markers`: watch(() => props.markers) runs updateMarkers
\* (BaseMap) or attachMarkers (DisplayGoogle, after the watcher of
\* visibleMarkers, whose attachments attachMarkers replaces)
SetMarkers(ms) ==
  /\ comp \in {"BaseMap", "DisplayGoogle"} /\ Container
  /\ ms # props.markers
  /\ props' = [props EXCEPT !.markers = ms]
  /\ inst' = IF comp = "BaseMap" THEN updateMarkers(Fresh(inst), props')
             ELSE DisplayGoogle_attachMarkers(
                    DisplayGoogle_attachVisibleMarkers(Fresh(inst), props'),
                    props')
  /\ last' = "SetMarkers"
  /\ UNCHANGED <<comp, phase, pending, OtherVars>>

\* the parent changes `center`
SetCenter(c) ==
  /\ comp \in Components \ DisplayComps /\ Container
  /\ c # props.center
  /\ LET p == [props EXCEPT !.center = c]
         b == CASE comp = "BaseMap" -> watchCenter(Fresh(inst), p, c)
                [] comp = "InputMap" -> Fresh(inst)
                [] comp = "DisplayGoogle" ->
                     DisplayGoogle_watchCenter(Fresh(inst), c)
                [] comp = "InputGoogle" ->
                     InputGoogle_watchCenter(Fresh(inst), p, c)
                [] comp = "InputLeaflet" ->
                     InputLeaflet_watchCenter(Fresh(inst), p, c)
     IN Publish(Settle(b, p), p)
  /\ last' = "SetCenter"
  /\ UNCHANGED <<comp, phase, pending, OtherVars>>

\* the parent changes `zoom`
SetZoom(z) ==
  /\ comp \in Components /\ Container
  /\ z # props.zoom
  /\ LET p == [props EXCEPT !.zoom = z]
         bp == BaseProps(p, inst.localValue)
         b == CASE comp \in BaseLike -> watchZoom(Fresh(inst), bp, bp.zoom)
                [] comp = "DisplayGoogle" ->
                     DisplayGoogle_watchZoom(Fresh(inst), z)
                [] comp = "InputGoogle" ->
                     InputGoogle_watchZoom(Fresh(inst), p, z)
                [] comp = "InputLeaflet" ->
                     InputLeaflet_watchZoom(Fresh(inst), p, z)
                [] comp \in DisplayComps ->
                     Display_watchZoom(Fresh(inst), p, DisplayEngineOf(comp), z)
     IN Publish(Settle(b, p), p)
  /\ last' = "SetZoom"
  /\ UNCHANGED <<comp, phase, pending, OtherVars>>

\* watch([mapId, colorScheme]) of the two Google components: nothing without
\* a map, else a new initMap (the input component calls destroyMap first)
MapStyleChanged(op) ==
  /\ last' = op
  /\ IF inst.googleMap = NoMap
       THEN /\ inst' = Fresh(inst)
            /\ UNCHANGED pending
       ELSE /\ inst.initCalls < MaxInits
            /\ inst' = IF comp = "DisplayGoogle"
                         THEN DisplayGoogle_initMap(Fresh(inst))
                         ELSE InputGoogle_watchMapStyle(Fresh(inst))
            /\ pending' = pending \o
                 (IF comp = "DisplayGoogle"
                    THEN DisplayGoogle_initMapAwaits(props', TRUE)
                    ELSE InputGoogle_watchMapStyleAwaits(inst, TRUE))
  /\ UNCHANGED <<comp, phase, OtherVars>>

SetMapId(id) ==
  /\ comp \in {"DisplayGoogle", "InputGoogle"} /\ Container
  /\ id # props.mapId
  /\ props' = [props EXCEPT !.mapId = id]
  /\ MapStyleChanged("SetMapId")

SetColorScheme(cs) ==
  /\ comp \in {"DisplayGoogle", "InputGoogle"} /\ Container
  /\ cs # props.colorScheme
  /\ props' = [props EXCEPT !.colorScheme = cs]
  /\ MapStyleChanged("SetColorScheme")

\* the coordinates a display component is given
DisplayPoints == {[lat |-> 10, lng |-> 20], [lat |-> 30, lng |-> 40]}

\* the parent changes `lat` and / or `lng` of a display component
SetLatLng(pos) ==
  /\ comp \in DisplayComps /\ Container
  /\ pos # [lat |-> props.lat, lng |-> props.lng]
  /\ props' = [props EXCEPT !.lat = pos.lat, !.lng = pos.lng]
  /\ inst' = Display_watchLatLng(Fresh(inst), props', DisplayEngineOf(comp))
  /\ last' = "SetLatLng"
  /\ UNCHANGED <<comp, phase, pending, OtherVars>>

\* the parent changes the bound coordinate
SetModelValue(v) ==
  /\ comp \in InputComps /\ Container
  /\ v # props.modelValue
  /\ LET p == [props EXCEPT !.modelValue = v]
         b == [Fresh(inst) EXCEPT !.localValue = watchModelValue(v)]
     IN Publish(Settle(b, p), p)
  /\ last' = "SetModelValue"
  /\ UNCHANGED <<comp, phase, pending, OtherVars>>

\* the library load an initialisation awaits completes; continuations of the
\* same component resume in the order they started waiting
LibraryLoaded ==
  /\ pending # <<>>
  /\ LET k == Head(pending)
         b == CASE comp \in BaseLike ->
                     initGoogleMapsResume(Fresh(inst),
                       BaseProps(props, inst.localValue), k, Container)
                [] comp = "DisplayGoogle" ->
                     DisplayGoogle_initMapResume(Fresh(inst), props, k, Container)
                [] comp = "InputGoogle" ->
                     InputGoogle_initMapResume(Fresh(inst), props, k, Container)
     IN Publish(Settle(b, props), props)
  /\ pending' = Tail(pending)
  /\ last' = "LibraryLoaded"
  /\ UNCHANGED <<comp, phase, OtherVars>>

\* MapLibre's "load" event: emitMapLibreCenter, updateMarkers
MapLibreLoad ==
  /\ comp \in BaseLike
  /\ \E m \in inst.maps :
       /\ m.engine = "maplibre" /\ ~m.loaded
       /\ LET bp == BaseProps(props, inst.localValue)
              b == OnMap(Fresh(inst), m.id, [m EXCEPT !.loaded = TRUE])
          IN Publish(Settle(updateMarkers(emitCenter(b, "maplibre"), bp),
                            props), props)
  /\ last' = "MapLibreLoad"
  /\ UNCHANGED <<comp, phase, pending, OtherVars>>

\* a map has settled after a move (Leaflet / MapLibre / OpenLayers "moveend",
\* Google "idle"): BaseMap emits center-change with the center of the map its
\* reference holds now; an input component in center mode copies the center;
\* DisplayGoogle attaches the markers in view
MapSettled ==
  /\ comp \in BaseLike \cup {"InputGoogle", "InputLeaflet", "DisplayGoogle"}
  /\ \E m \in inst.maps :
       /\ m.idlePending
       /\ LET b == OnMap(Fresh(inst), m.id, [m EXCEPT !.idlePending = FALSE])
          IN IF comp \in BaseLike
               THEN Publish(Settle(emitCenter(b, m.engine), props), props)
               ELSE IF comp = "DisplayGoogle"
               THEN Publish(DisplayGoogle_attachVisibleMarkers(b, props), props)
               ELSE Publish([b EXCEPT !.localValue = toFixed6Pos(m.center)],
                            props)
  /\ last' = "MapSettled"
  /\ UNCHANGED <<comp, phase, pending, OtherVars>>

\* where the user can click, pan or drag to: one point with a seventh decimal
\* digit, one without
RawPoints == {[lat |-> 14, lng |-> 26], [lat |-> 50, lng |-> 60]}

\* the click listener of BaseMap, registered when props.clickable: map-click
\* with the clicked point
emitClick(b, e, pt) ==
  LET lonlat == toLonLat(pt)
  IN IF e = "openlayers" THEN Emit(b, "map-click", lonlat[2], lonlat[1])
     ELSE Emit(b, "map-click", pt.lat, pt.lng)

\* the user clicks a map that has a click listener
Click(pt) ==
  /\ \E m \in inst.maps :
       /\ m.id \in Referenced(inst)
       /\ CASE comp \in BaseLike ->
                 /\ BaseProps(props, inst.localValue).clickable
                 /\ Publish(Settle(emitClick(Fresh(inst), m.engine, pt), props),
                            props)
            [] comp \in {"InputGoogle", "InputLeaflet"} ->
                 /\ props.mode = "click"
                 /\ Publish([Fresh(inst) EXCEPT !.localValue = toFixed6Pos(pt)],
                            props)
            [] OTHER -> FALSE
  /\ last' = "Click"
  /\ UNCHANGED <<comp, phase, pending, OtherVars>>

\* the user pans a map; a move listener (every BaseMap map, an input component
\* in center mode) will report the new center
Pan(pt) ==
  /\ comp \in BaseLike \cup {"InputGoogle", "InputLeaflet", "DisplayGoogle"}
               \cup DisplayComps
  /\ \E m \in inst.maps :
       /\ m.id \in Referenced(inst)
       /\ m.center # pt
       /\ inst' = OnMap(Fresh(inst), m.id,
                        [m EXCEPT !.center = pt,
                                  !.idlePending = (comp \in BaseLike
                                                   \/ comp = "DisplayGoogle"
                                                   \/ props.mode = "center")])
  /\ last' = "Pan"
  /\ UNCHANGED <<comp, phase, props, pending, OtherVars>>

\* the user drags the marker of the Google input component in drag mode and
\* lets go: the "dragend" listener (updatePosition)
DragEnd(pt) ==
  /\ comp = "InputGoogle"
  /\ inst.marker # NoMap
  /\ inst.markerPos # pt
  /\ Publish([Fresh(inst) EXCEPT !.markerPos = pt,
                                  !.localValue = [lat |-> pt.lat, lng |-> pt.lng]],
             props)
  /\ last' = "DragEnd"
  /\ UNCHANGED <<comp, phase, pending, OtherVars>>

\* the component is unmounted
Unmount ==
  /\ comp \in Components /\ Container
  /\ phase' = "unmounted"
  /\ inst' = CASE comp \in BaseLike -> onBeforeUnmount(Fresh(inst))
               [] comp = "DisplayGoogle" -> DisplayGoogle_onBeforeUnmount(Fresh(inst))
               [] comp = "InputGoogle" -> InputGoogle_onUnmounted(Fresh(inst))
               [] comp = "InputLeaflet" -> InputLeaflet_onBeforeUnmount(Fresh(inst))
               [] comp \in DisplayComps ->
                    Display_onBeforeUnmount(Fresh(inst), DisplayEngineOf(comp))
  /\ last' = "Unmount"
  /\ UNCHANGED <<comp, props, pending, OtherVars>>

\* the props a component is created with
InitialProps(c) ==
  LET base == [NoProps EXCEPT !.center = <<10, 20>>, !.zoom = 3]
      google == [base EXCEPT !.mapId = "map-1", !.colorScheme = "LIGHT"]
  IN CASE c = "BaseMap" ->
            {[base EXCEPT !.engine = e, !.source = src, !.clickable = k] :
               e \in Engines, src \in Sources, k \in BOOLEAN}
       [] c = "DisplayGoogle" ->
            {[google EXCEPT !.markers = ms] : ms \in MarkerLists}
       [] c = "InputGoogle" ->
            {[google EXCEPT !.mode = m, !.modelValue = v] :
               m \in Modes, v \in ModelValues}
       [] c = "InputLeaflet" ->
            {[base EXCEPT !.mode = m, !.source = src, !.modelValue = v] :
               m \in {"click", "center"}, src \in {NoSource, RasterA},
               v \in ModelValues}
       [] c \in DisplayComps ->
            {[NoProps EXCEPT !.lat = 10, !.lng = 20, !.zoom = z, !.source = src] :
               z \in {UndefZoom, 3}, src \in {NoSource, RasterA}}
       [] c = "InputMap" ->
            {[base EXCEPT !.engine = e, !.source = GoogleSrc, !.mode = m,
                          !.modelValue = v] :
               e \in Engines, m \in {"click", "center"}, v \in ModelValues}

\* setup: the local value of an input component starts as props.modelValue
InitMaps ==
  /\ CoordInit
  /\ apiKey = Placeholder
  /\ GeoIdle
  /\ FmtIdle
  /\ comp \in Components
  /\ phase = "setup"
  /\ props \in InitialProps(comp)
  /\ inst = [NewInstance EXCEPT !.localValue = watchModelValue(props.modelValue)]
  /\ pending = <<>>
  /\ last = "none"

NextMaps ==
  \/ Mount
  \/ \E e \in Engines : SetEngine(e)
  \/ \E src \in Sources : SetSource(src)
  \/ \E ms \in MarkerLists : SetMarkers(ms)
  \/ \E c \in Centers : SetCenter(c)
  \/ \E z \in Zooms : SetZoom(z)
  \/ \E id \in MapIds : SetMapId(id)
  \/ \E cs \in ColorSchemes : SetColorScheme(cs)
  \/ \E v \in ModelValues : SetModelValue(v)
  \/ \E pos \in DisplayPoints : SetLatLng(pos)
  \/ LibraryLoaded
  \/ MapLibreLoad
  \/ MapSettled
  \/ \E pt \in RawPoints : Click(pt)
  \/ \E pt \in RawPoints : Pan(pt)
  \/ \E pt \in RawPoints : DragEnd(pt)
  \/ Unmount

SpecMaps == InitMaps /\ [][NextMaps]_vars

\* ---------------------------------------------------------------------
\* Properties of the map components
\* ---------------------------------------------------------------------

\* the counters and the references of an instance
Counts(b) == <<b.initCalls, b.inits, b.destroyCalls, b.destroys, b.errors>>
Refs(b) == <<b.leafletMap, b.mapLibreMap, b.olMap, b.googleMap, b.marker>>

\* C6: a Base Map component has at most one live SDK map on its container and
\* at most one of its map references set, in every reachable state, whatever
\* the interleaving of mount, engine changes and the end of the Google load.
C6_AtMostOneLiveHandle ==
  comp = "BaseMap" =>
    /\ Cardinality(inst.maps) <= 1
    /\ Cardinality(Referenced(inst)) <= 1

\* C7: on a Base Map component, after N map creations the number of map
\* destructions is N-1 or N (every map but the newest was destroyed before
\* its successor was created).
C7_InitsAndDestroys ==
  comp = "BaseMap" =>
    /\ inst.destroys <= inst.inits
    /\ inst.inits - 1 <= inst.destroys

\* C8: unmounting an input or display component calls its destroyMap exactly
\* once, whether no init is outstanding, an init awaits the library, or the
\* map exists; the call raises no error and leaves no reference set; nothing
\* calls destroyMap again afterwards.
C8_UnmountDestroysOnce ==
  [][(comp \in {"InputGoogle", "DisplayGoogle", "InputLeaflet"} =>
       /\ (phase = "mounted" /\ phase' = "unmounted") =>
            /\ inst'.destroyCalls = inst.destroyCalls + 1
            /\ inst'.errors = inst.errors
            /\ Refs(inst') = Refs(NewInstance)
            /\ Refs(inst) = Refs(NewInstance) => inst'.maps = inst.maps
       /\ phase = "unmounted" => inst'.destroyCalls = inst.destroyCalls)]_vars

\* C8 witness: the input component was unmounted while its init was still
\* awaiting the library, and destroyMap ran for the unmount (once for the
\* init, once for the unmount)
C8_Witness ==
  /\ comp = "InputGoogle"
  /\ last = "Unmount"
  /\ phase = "unmounted"
  /\ pending # <<>>
  /\ inst.inits = 0
  /\ inst.destroyCalls = 2

\* C9: a change of `source` on a ready Base Map component destroys the
\* current map and starts a new initialisation.
C9_SourceChangeReinitialises ==
  [][((/\ comp = "BaseMap"
       /\ props'.source # props.source
       /\ Referenced(inst) # {}
       /\ pending = <<>>)
       => /\ inst'.destroys = inst.destroys + 1
          /\ inst'.initCalls = inst.initCalls + 1)]_vars

\* the map reference a center / zoom change is applied through
Handle ==
  IF comp = "BaseMap" THEN inst[RefOf(activeEngine(props))] ELSE inst.googleMap

\* C10: on a Base Map or Google display component a change of center or zoom
\* alone leaves the map references, the set of live maps and the init and
\* destroy counts as they were and starts no initialisation; the referenced
\* map takes the new center (as latitude, longitude) or the new zoom and
\* nothing else about it changes (a move event becomes due); without a
\* referenced map nothing changes.
C10_CenterZoomInPlace ==
  [][((/\ comp \in {"BaseMap", "DisplayGoogle"}
       /\ (props'.center # props.center \/ props'.zoom # props.zoom))
       => /\ Counts(inst') = Counts(inst)
          /\ Refs(inst') = Refs(inst)
          /\ {m.id : m \in inst'.maps} = {m.id : m \in inst.maps}
          /\ pending' = pending
          /\ Handle = NoMap =>
               [inst' EXCEPT !.emitted = <<>>] = [inst EXCEPT !.emitted = <<>>]
          /\ Handle # NoMap =>
               /\ [MapOf(inst', Handle) EXCEPT !.idlePending = FALSE] =
                    [MapOf(inst, Handle) EXCEPT
                       !.idlePending = FALSE,
                       !.center = IF props'.center # props.center
                                    THEN [lat |-> props'.center[1],
                                          lng |-> props'.center[2]]
                                    ELSE @,
                       !.zoom = IF props'.zoom # props.zoom
                                  THEN props'.zoom ELSE @]
               /\ \A m \in inst.maps : m.id # Handle => m \in inst'.maps)]_vars

\* C10 witness: a ready Base Map component (one init, no destroy) has just
\* had its center changed and its MapLibre map shows the new center
C10_Witness ==
  /\ comp = "BaseMap"
  /\ last = "SetCenter"
  /\ activeEngine(props) = "maplibre"
  /\ inst.mapLibreMap # NoMap
  /\ props.center = <<30, 40>>
  /\ MapOf(inst, inst.mapLibreMap).center = [lat |-> 30, lng |-> 40]
  /\ inst.inits = 1
  /\ inst.destroys = 0

\* a coordinate with at most six decimal digits
SixDecimals(x) == x % 10 = 0

\* C11: after a map click, a reported map-center change or a marker drag-end
\* the bound coordinate holds lat and lng with at most six decimal digits, in
\* every input mode.
C11_SixDecimalsOnInteraction ==
  (comp \in InputComps
     /\ last \in {"Click", "MapSettled", "DragEnd"}
     /\ inst.localValue # UnsetPosition) =>
    /\ SixDecimals(inst.localValue.lat)
    /\ SixDecimals(inst.localValue.lng)

\* C12: when the parent sets the bound coordinate of an input component to a
\* value with at most six decimal digits (or to none), the coordinate read
\* back right after, from the component and from the binding, has the same
\* lat and lng.
C12_SetThenReadBack ==
  [][\A v \in ModelValues :
       (SetModelValue(v)
          /\ (v # UnsetPosition => SixDecimals(v.lat) /\ SixDecimals(v.lng))) =>
         /\ inst'.localValue = v
         /\ props'.modelValue = v]_vars

C12_Witness ==
  /\ comp \in {"InputMap", "InputLeaflet"}
  /\ last = "SetModelValue"
  /\ props.modelValue = [lat |-> 70, lng |-> 80]
  /\ inst.localValue = [lat |-> 70, lng |-> 80]
  /\ inst.maps # {}

\* the map reference of an input component
InputHandle ==
  CASE comp = "InputMap" ->
         inst[RefOf(activeEngine(ChildProps(props, inst.localValue)))]
    [] comp = "InputLeaflet" -> inst.leafletMap
    [] OTHER -> inst.googleMap

\* C13: when the parent sets the bound coordinate of a ready input component
\* to a coordinate, the map is centered on that coordinate and, in drag mode,
\* the marker stands on it.
C13_ExternalChangeRepositions ==
  [][\A v \in ModelValues \ {UnsetPosition} :
       (SetModelValue(v) /\ InputHandle # NoMap) =>
         /\ MapOf(inst', InputHandle).center = v
         /\ inst.marker # NoMap => inst'.markerPos = v]_vars

\* the steps in which the user acts on the map or the map reports to the
\* component
Interactions == {"Click", "MapSettled", "DragEnd"}

\* C14: an interaction that gives an input component a new local value v is
\* followed by exactly one update:modelValue(v); the parent's write of v to
\* the bound prop changes neither the local value nor, in the stand-alone
\* components, the map, so no further emit follows and the component rests
\* with local value = bound value = v.
C14_UpdateCycleEnds ==
  [][(/\ comp \in InputComps
      /\ last' \in Interactions
      /\ inst'.localValue # inst.localValue)
      => /\ inst'.echo = 1
         /\ props'.modelValue = inst'.localValue
         /\ \A pt \in RawPoints :
              /\ Click(pt) => inst'.localValue = toFixed6Pos(pt)
              /\ DragEnd(pt) => inst'.localValue = pt
         /\ comp # "InputMap" =>
              {[m EXCEPT !.idlePending = FALSE] : m \in inst'.maps} =
                {[m EXCEPT !.idlePending = FALSE] : m \in inst.maps}]_vars

C14_Witness ==
  /\ comp = "InputMap"
  /\ last = "Click"
  /\ inst.echo = 1
  /\ inst.localValue = [lat |-> 10, lng |-> 30]
  /\ props.modelValue = [lat |-> 10, lng |-> 30]

\* C15: a mounted display component shows exactly one marker, at the (lat,
\* lng) it is given, in every reachable state; each change of lat or lng
\* moves the marker and the view's center there and keeps the same map.
C15_OneMarkerAtLatLng ==
  /\ [](comp \in DisplayComps /\ phase = "mounted" =>
          /\ inst[RefOf(DisplayEngineOf(comp))] # NoMap
          /\ inst.maps # {}
          /\ \A m \in inst.maps :
               /\ m.id = inst[RefOf(DisplayEngineOf(comp))]
               /\ m.markers = <<[lat |-> props.lat, lng |-> props.lng]>>)
  /\ [][\A pos \in DisplayPoints : SetLatLng(pos) =>
          /\ Refs(inst') = Refs(inst)
          /\ \A m \in inst'.maps :
               /\ m.center = pos
               /\ m.markers = <<pos>>]_vars

C15_Witness ==
  /\ comp = "DisplayOpenLayers"
  /\ last = "SetLatLng"
  /\ inst.olMap # NoMap
  /\ props.lat = 30 /\ props.lng = 40
  /\ MapOf(inst, inst.olMap).center = [lat |-> 30, lng |-> 40]
  /\ MapOf(inst, inst.olMap).markers = <<[lat |-> 30, lng |-> 40]>>

\* the texts shown when a lookup gave no address
FailureTexts == {"Unable to determine address", "Error retrieving address"}

\* a provider's answer that carries no result: a transport error (rejected
\* fetch, HTTP error, unreadable body, library load failure) or an empty
\* result
OsmFailed(o) == OsmTry(o).threw \/ OsmTry(o).value.isNull
GoogleFailed(g) == GoogleTry(FALSE, g).threw \/ GoogleTry(FALSE, g).value.isNull

\* C16: when a lookup ends with a transport error or an empty result, address
\* becomes one of the two failure texts, isLoadingAddress becomes false and
\* position keeps its value; in that state position can still be assigned.
C16_FailedLookup ==
  /\ [][\A r \in inflight :
          /\ \A o \in OsmOutcomes :
               (r.svc = "openstreetmap" /\ OsmFailed(o)
                  /\ Respond(r, osmReverseGeocode(o))) =>
                 /\ address' \in FailureTexts
                 /\ ~isLoadingAddress'
                 /\ position' = position
          /\ \A g \in GoogleOutcomes :
               (r.svc = "googlemaps" /\ GoogleFailed(g)
                  /\ Respond(r, gmapsReverseGeocode(FALSE, g))) =>
                 /\ address' \in FailureTexts
                 /\ ~isLoadingAddress'
                 /\ position' = position]_vars
  /\ []((address \in FailureTexts
          /\ Len(changeLog) + Len(reassignQ) < MaxChanges) =>
          ENABLED (\E v \in PosValues : UserSetsPosition(v)))

C16_Witness ==
  /\ address = "Unable to determine address"
  /\ ~isLoadingAddress
  /\ inflight = {}
  /\ Len(lookups) = 1
  /\ lookups[1].svc = "openstreetmap"
  /\ position = lookups[1].pos

\* C17: with the Google key missing or equal to the placeholder, every call of
\* the Google provider finds this before the library is loaded (the provider
\* stays uninitialised, so the next call checks again), and what the caller
\* receives differs from what it receives for an ordinary request without
\* result.
C17_ConfigErrorSurfaced ==
  (geoResult # <<>> /\ geoResult[1].svc = "googlemaps" /\ KeyInvalid(apiKey)) =>
    /\ geoResult[1].cfgThrows
    /\ ~googleMapsInitialized
    /\ \A g \in GoogleOutcomes :
         GoogleFailed(g) =>
           geoResult[1].value # gmapsReverseGeocode(FALSE, g)

\* the destroyMap of the component
Destroy(b) ==
  CASE comp \in BaseLike -> destroyMap(b)
    [] comp = "DisplayGoogle" -> DisplayGoogle_destroyMap(b)
    [] OTHER -> InputGoogle_destroyMap(b)

\* equal but for the count of destroyMap calls
SameButCalls(x, y) ==
  [x EXCEPT !.destroyCalls = 0] = [y EXCEPT !.destroyCalls = 0]

\* C18: in every reachable state of a Base Map or Google component,
\* destroyMap raises no error and leaves no map reference, no marker and none
\* of the maps that were referenced; called without any reference set (never
\* created, or destroyed before) it changes nothing; called a second time it
\* changes nothing more.
C18_DestroyIdempotent ==
  comp \in BaseLike \cup {"DisplayGoogle", "InputGoogle"} =>
    LET once == Destroy(inst)
        twice == Destroy(once)
    IN /\ SameButCalls(twice, once)
       /\ Refs(once) = Refs(NewInstance)
       /\ once.markerPos = UnsetPosition
       /\ \A m \in once.maps : m.id \notin Referenced(inst)
       /\ once.errors = inst.errors
       /\ once.destroys = inst.destroys + Cardinality(Referenced(inst))
       /\ Refs(inst) = Refs(NewInstance) => SameButCalls(once, inst)

\* C18 witness: the Google input component called destroyMap before any map
\* existed (mount), on its map (style change) and again right after
\* (initMap), and has no reference
C18_Witness ==
  /\ comp = "InputGoogle"
  /\ inst.destroyCalls = 3
  /\ inst.destroys = 1
  /\ inst.errors = 0
  /\ Refs(inst) = Refs(NewInstance)

\* the position a (lat, lng) pair of the props denotes
LatLngOf(c) == [lat |-> c[1], lng |-> c[2]]

\* the positions of the markers of the props
MarkersOf(p) == [i \in 1..Len(p.markers) |->
                   [lat |-> p.markers[i].lat, lng |-> p.markers[i].lng]]

\* C19: on a Base Map, whatever the engine, (1) a map constructed on mount or
\* on an engine change is centered on the latitude and longitude of
\* props.center, (2) a center change puts the referenced map on the latitude
\* and longitude of the new center, (3) the markers of every map stand on the
\* latitude and longitude of markers of the props, (4) a map-click carries the
\* clicked latitude in lat and the clicked longitude in lng and a
\* center-change carries the center of a referenced map the same way, and
\* (5) the center-change that reports a center change carries the latitude
\* and longitude that were passed in.
C19_LatLngConvention ==
  /\ [][(comp = "BaseMap" /\ last' \in {"Mount", "SetEngine"}
           /\ inst'.inits = inst.inits + 1) =>
          \E m \in inst'.maps :
            /\ m.id = inst'.inits
            /\ m.engine = activeEngine(props')
            /\ m.center = LatLngOf(initialCenter(props'))]_vars
  /\ [][\A c \in Centers :
          (comp = "BaseMap" /\ SetCenter(c) /\ Handle # NoMap) =>
            MapOf(inst', Handle).center = LatLngOf(c)]_vars
  /\ [](comp = "BaseMap" =>
          \A m \in inst.maps :
            m.markers = <<>> \/ m.markers = MarkersOf(props))
  /\ [][\A pt \in RawPoints :
          (comp = "BaseMap" /\ Click(pt)) =>
            inst'.emitted =
              <<[event |-> "map-click", lat |-> pt.lat, lng |-> pt.lng]>>]_vars
  /\ [](comp = "BaseMap" =>
          \A i \in 1..Len(inst.emitted) :
            inst.emitted[i].event = "center-change" =>
              \E m \in inst.maps :
                /\ m.id \in Referenced(inst)
                /\ inst.emitted[i].lat = m.center.lat
                /\ inst.emitted[i].lng = m.center.lng)
  /\ [][(/\ comp = "BaseMap"
         /\ last = "SetCenter" /\ last' = "MapSettled"
         /\ Handle # NoMap
         /\ MapOf(inst, Handle).idlePending
         /\ ~MapOf(inst', Handle).idlePending) =>
          inst'.emitted =
            <<[event |-> "center-change", lat |-> props.center[1],
               lng |-> props.center[2]]>>]_vars

\* C19 witness: an OpenLayers Base Map was given the center (30, 40), shows
\* it, and has reported it back
C19_Witness ==
  /\ comp = "BaseMap"
  /\ activeEngine(props) = "openlayers"
  /\ last = "MapSettled"
  /\ props.center = <<30, 40>>
  /\ inst.olMap # NoMap
  /\ MapOf(inst, inst.olMap).center = [lat |-> 30, lng |-> 40]
  /\ MapOf(inst, inst.olMap).markers = <<[lat |-> 50, lng |-> 60]>>
  /\ inst.emitted = <<[event |-> "center-change", lat |-> 30, lng |-> 40]>>

\* C20: isLoadingAddress is false whenever no lookup awaits its response
\* (idle, debounce pending, lookup ended), and true for as long as the lookup
\* that started last awaits its response, whatever happens to the lookups
\* started before it.
C20_LoadingFlag ==
  /\ inflight = {} => ~isLoadingAddress
  /\ (lookups # <<>> /\ \E r \in inflight : r.id = Last(lookups).id) =>
       isLoadingAddress

\* C21: when the markers of a Base Map or of the Google display component
\* change, updateMarkers / attachMarkers leaves on the referenced map of the
\* active engine exactly the markers of the new list, in order and at their
\* positions, and none on any other map of that engine; without a referenced
\* map the call changes nothing.
C21_MarkersAreTheList ==
  [][\A ms \in MarkerLists :
       SetMarkers(ms) =>
         IF Handle = NoMap
           THEN inst' = Fresh(inst)
           ELSE /\ MapOf(inst', Handle).markers = MarkerPositions(ms)
                /\ \A m \in inst'.maps :
                     (m.engine = MapOf(inst', Handle).engine /\ m.id # Handle)
                       => m.markers = <<>>
                /\ Refs(inst') = Refs(inst)]_vars

\* C21 witness: the marker of a Google display map was taken away
C21_Witness ==
  /\ comp = "DisplayGoogle"
  /\ last = "SetMarkers"
  /\ inst.googleMap # NoMap
  /\ props.markers = <<>>
  /\ MapOf(inst, inst.googleMap).markers = <<>>
  /\ inst.inits = 1

\* C22: mounting an input component whose bound coordinate is unset, and the
\* end of the library load its initialisation awaits, leave the bound
\* coordinate unset, in every mode.
C22_InitWritesNoCoordinate ==
  [][(/\ comp \in InputComps
      /\ last' \in {"Mount", "LibraryLoaded"}
      /\ props.modelValue = UnsetPosition)
      => props'.modelValue = UnsetPosition]_vars

\* the input mode in force
ModeOf(p) == IF comp = "InputMap" THEN InputMap_mode(p) ELSE p.mode

\* the center of the map an input component shows
ShownCenter(b) == MapOf(b, InputHandle).center

\* C23: in click mode a click sets the bound value to the clicked point and
\* no other step but an external change of the value changes it (a reported
\* map center in particular); in center mode a reported map center sets the
\* bound value to the center of a map of the component (of the one it shows,
\* when that is its only map) and a click leaves it unchanged.
C23_ModeFrame ==
  [][(comp \in InputComps =>
       /\ (ModeOf(props) = "click" /\ last' \notin {"Click", "SetModelValue"}) =>
            /\ inst'.localValue = inst.localValue
            /\ props'.modelValue = props.modelValue
       /\ ModeOf(props) = "click" =>
            \A pt \in RawPoints :
              Click(pt) => /\ inst'.localValue = toFixed6Pos(pt)
                           /\ props'.modelValue = toFixed6Pos(pt)
       /\ (ModeOf(props) = "center" /\ last' = "Click") =>
            /\ inst'.localValue = inst.localValue
            /\ props'.modelValue = props.modelValue
       /\ (ModeOf(props) = "center" /\ last' = "MapSettled") =>
            /\ props'.modelValue = inst'.localValue
            /\ inst'.localValue = inst.localValue
                 \/ \E m \in inst.maps :
                      inst'.localValue = toFixed6Pos(m.center)
            /\ (Cardinality(inst.maps) = 1 /\ InputHandle # NoMap) =>
                 inst'.localValue = toFixed6Pos(ShownCenter(inst)))]_vars

\* C23 witness: an Input Map in center mode was clicked (the wrapped map
\* reported the click) and kept its value
C23_Witness ==
  /\ comp = "InputMap"
  /\ ModeOf(props) = "center"
  /\ last = "Click"
  /\ Len(inst.emitted) = 1
  /\ inst.emitted[1].event = "map-click"
  /\ inst.localValue # toFixed6Pos([lat |-> inst.emitted[1].lat,
                                    lng |-> inst.emitted[1].lng])
  /\ props.modelValue = inst.localValue

\* the rules of extractAddressComponents in their order: the types that
\* select the rule and the fields it sets
ExtractRules ==
  << [types |-> {"street_number"}, fields |-> {"house_number"}],
     [types |-> {"route"}, fields |-> {"road"}],
     [types |-> {"locality", "administrative_area_level_3"}, fields |-> {"city"}],
     [types |-> {"administrative_area_level_2"}, fields |-> {"county"}],
     [types |-> {"administrative_area_level_1"}, fields |-> {"state"}],
     [types |-> {"country"}, fields |-> {"country", "country_code"}],
     [types |-> {"postal_code"}, fields |-> {"postcode"}],
     [types |-> {"sublocality", "neighborhood"}, fields |-> {"suburb"}] >>

\* the first rule a component matches, 0 when it matches none
RuleOf(c) ==
  LET hits == {i \in 1..Len(ExtractRules) : ExtractRules[i].types \cap c.types # {}}
  IN IF hits = {} THEN 0 ELSE CHOOSE i \in hits : \A j \in hits : i <= j

\* the components of cs that set field f
Setters(cs, f) ==
  {i \in 1..Len(cs) : RuleOf(cs[i]) # 0 /\ f \in ExtractRules[RuleOf(cs[i])].fields}

\* the address the rules give for the list cs
ExpectedAddress(cs) ==
  [f \in DOMAIN EmptyAddr |->
     LET is == Setters(cs, f)
         k == CHOOSE i \in is : \A j \in is : i >= j
     IN IF is = {} THEN Undef
        ELSE IF f = "country_code" THEN cs[k].short_name ELSE cs[k].long_name]

\* C24: the address of a Google result is the one the rules give: each
\* component acts by the first rule it matches, in the fixed order, and by
\* that rule only; the last component that sets a field decides it; a
\* component that matches no rule sets nothing; the address is undefined when
\* no field was set.
C24_ExtractByRules ==
  (/\ geoResult # <<>>
   /\ geoResult[1].svc = "googlemaps"
   /\ ~geoResult[1].value.isNull) =>
    LET cs == geoResult[1].google.results[1].address_components
        e == ExpectedAddress(cs)
    IN geoResult[1].value.address = IF e = EmptyAddr THEN NoAddr ELSE <<e>>

\* C24 witness: a component of two rules' types followed by a route
C24_Witness ==
  /\ geoResult # <<>>
  /\ geoResult[1].svc = "googlemaps"
  /\ ~geoResult[1].value.isNull
  /\ geoResult[1].google.results[1].address_components =
       << Component("10 Main", "10 Main", {"street_number", "route"}),
          Component("Side St", "Side St", {"route"}) >>
  /\ geoResult[1].value.address =
       << [EmptyAddr EXCEPT !.house_number = "10 Main", !.road = "Side St"] >>

\* C25: an unmounted map component holds no map or marker reference, and no
\* marker is attached to any map, in every state from the unmount on; an
\* initialisation that resumes after the unmount creates no map and attaches
\* no marker.
C25_UnmountedHoldsNothing ==
  /\ [](phase = "unmounted" =>
          /\ Refs(inst) = <<NoMap, NoMap, NoMap, NoMap, NoMap>>
          /\ \A m \in inst.maps : m.markers = <<>>)
  /\ [][(phase = "unmounted" /\ last' = "LibraryLoaded") =>
          /\ inst'.inits = inst.inits
          /\ inst'.maps = inst.maps
          /\ Refs(inst') = Refs(inst)]_vars

\* C25 witness: the Google display component was unmounted while its
\* initMap awaited, and the initMap has resumed
C25_Witness ==
  /\ comp = "DisplayGoogle"
  /\ phase = "unmounted"
  /\ last = "LibraryLoaded"
  /\ props.markers # <<>>
  /\ inst.inits = 0
  /\ inst.maps = {}
  /\ inst.googleMap = NoMap

\* C26: a provider switch never changes the coordinate: when the deferred
\* re-assignment of watch(selectedService) runs, position keeps the value it
\* has at that moment (the user's newest), and the debounce timer the
\* re-assignment starts carries that value to the lookup.
C26_SwitchKeepsCoordinate ==
  [][ReassignFire =>
       /\ position' = position
       /\ \A t \in timers' : t.id = geocodingTimeoutId' => t.pos = position]_vars

\* C27: when the initMap of the Google display component has just finished
\* and no other initialisation is outstanding, the map is centered on the
\* center prop of that moment, also when the prop changed while initMap
\* awaited.
C27_CenterAfterInit ==
  (/\ comp = "DisplayGoogle"
   /\ last = "LibraryLoaded"
   /\ pending = <<>>
   /\ inst.googleMap # NoMap
   /\ props.center # UndefCenter) =>
    MapOf(inst, inst.googleMap).center =
      GoogleLatLng(props.center[1], props.center[2])

\* C28: on a mounted Google component that has had a map, whenever no
\* initialisation is outstanding there is exactly one live map, the component
\* references it, and it was created with the mapId and colorScheme the props
\* have now; at most one initialisation is outstanding at a time, and a
\* mapId / colorScheme change that arrives while one is outstanding starts
\* no other.
C28_OneMapWithLatestStyle ==
  /\ []((/\ comp \in {"DisplayGoogle", "InputGoogle"}
         /\ phase = "mounted"
         /\ pending = <<>>) =>
          /\ Cardinality(inst.maps) = 1
          /\ inst.googleMap # NoMap
          /\ TheMap(inst).mapId = props.mapId
          /\ TheMap(inst).colorScheme = props.colorScheme)
  /\ [](comp \in {"DisplayGoogle", "InputGoogle"} => Len(pending) <= 1)
  /\ [][(/\ comp \in {"DisplayGoogle", "InputGoogle"}
         /\ last' \in {"SetMapId", "SetColorScheme"}
         /\ pending # <<>>) =>
          /\ pending' = pending
          /\ inst'.initCalls = inst.initCalls
          /\ inst'.maps = inst.maps]_vars

\* C28 witness: mapId and colorScheme both differ from those at mount, two
\* maps were created and the second one is in place
C28_Witness ==
  /\ comp = "DisplayGoogle"
  /\ phase = "mounted"
  /\ last = "LibraryLoaded"
  /\ pending = <<>>
  /\ inst.inits = 2
  /\ props.mapId # "map-1"
  /\ props.colorScheme # "LIGHT"
  /\ TheMap(inst).mapId = props.mapId
  /\ TheMap(inst).colorScheme = props.colorScheme

\* C29: whenever no run of the marker watcher awaits createMarker,
\* customMarkers holds the main marker at position and the offset marker at
\* (lat + 1, lng + 1) of the position of that moment, in whatever order the
\* overlapping runs ended; it is empty when that position is unset.
C29_MarkersOfLatestPosition ==
  markerRuns = <<>> =>
    customMarkers = IF IsSet(position)
                      THEN <<MainMarker(position), OffsetMarker(position)>>
                      ELSE <<>>

\* a coordinate with a null part
HasNull(p) == p.lat = Null \/ p.lng = Null

\* C30: when the debounce timer fires for a coordinate with a null lat or
\* lng, no provider is called, address becomes "" and isLoadingAddress false;
\* a provider switch while the coordinate has a null part assigns no
\* coordinate, now or deferred, and starts no timer and no lookup.
C30_NullCoordinate ==
  /\ [][\A t \in timers :
          (HasNull(t.pos) /\ TimerFire(t)) =>
            /\ lookups' = lookups
            /\ inflight' = inflight
            /\ address' = ""
            /\ ~isLoadingAddress']_vars
  /\ [][\A s \in Services :
          (HasNull(position) /\ SelectService(s)) =>
            /\ position' = position
            /\ reassignQ' = reassignQ
            /\ changeLog' = changeLog
            /\ timers' = timers
            /\ lookups' = lookups
            /\ inflight' = inflight]_vars

\* C30 witness: a lookup for a set coordinate wrote an address, then the
\* timer of a coordinate with a null part fired and cleared it
C30_Witness ==
  /\ HasNull(position)
  /\ timers = {}
  /\ Len(changeLog) = 2
  /\ Len(lookups) = 1
  /\ inflight = {}
  /\ addressFrom > lookups[1].id
  /\ address = ""
  /\ ~isLoadingAddress

====
